---- MODULE Spec2Model ----
(***************************************************************************)
(* A model of src/main.py: the Telegram tool functions registered with the *)
(* FastMCP server, the error normalizer log_and_format_error they share,   *)
(* and the process state they run in (the logger and the per-process seed  *)
(* of Python's string hash).                                               *)
(*                                                                         *)
(* A tool invocation is one action.  What the client library answers to    *)
(* each call of the invocation (a value, or a raised exception) is an      *)
(* input of the action; the calls the invocation issued, the records it    *)
(* sent to the logger and the value it handed back to the server loop are  *)
(* the state the action leaves.                                            *)
(*                                                                         *)
(* Python strings that the code inspects (substring tests, lower(),        *)
(* endswith, hash) are tuples of one-character strings; strings that are   *)
(* only handed back are named by the f-string that builds them.            *)
(***************************************************************************)
EXTENDS Integers, Sequences, FiniteSets, TLC

VARIABLES
    hashSeed,   \* the seed of str.__hash__ drawn when the interpreter starts
    run,        \* the number of the current run of the server process
    tool,       \* the tool (or helper) invoked last, "none" before the first
    args,       \* the arguments of that invocation
    env,        \* what the invocation found outside the process (remote objects, files)
    calls,      \* the client-library calls the invocation issued, in order
    ret,        \* how the invocation ended: a returned string or a propagated exception
    logged,     \* the records the invocation got past the logger's level, in order
    noted,      \* what the caller kept of earlier answers, to compare or to join with later ones
    main,       \* where the process is in main(), and its exit status once it has ended
    files,      \* the paths at which download_media has left a file that a later invocation reads
    chat,       \* the ids of the messages the remote service holds for the chat read in context
    ctx         \* the get_message_context invocation suspended at an await, if any

vars == <<hashSeed, run, tool, args, env, calls, ret, logged, noted, main, files, chat, ctx>>

---------------------------------------------------------------------------
(* Bounds of the model.                                                    *)

MaxSeed == 1        \* hash seeds 0..MaxSeed
MaxRuns == 2        \* runs of the process (one restart)
MaxDialogs == 3     \* dialogs the account has
MaxPage == 3        \* page numbers 1..MaxPage
MaxPageSize == 2    \* page sizes 1..MaxPageSize
MaxMsgs == 2        \* messages a fetch returns
TicksPerDay == 3    \* instants told apart within one calendar day
MaxUsers == 2       \* length of a user_ids list
MaxId == 3          \* ids of the messages sent to the chat read in context

---------------------------------------------------------------------------
(* Python strings as tuples of characters.                                 *)

LowerCase == <<"a", "b", "c", "d", "e", "f", "g", "h", "i", "j", "k", "l", "m",
               "n", "o", "p", "q", "r", "s", "t", "u", "v", "w", "x", "y", "z">>
UpperCase == <<"A", "B", "C", "D", "E", "F", "G", "H", "I", "J", "K", "L", "M",
               "N", "O", "P", "Q", "R", "S", "T", "U", "V", "W", "X", "Y", "Z">>
Digits == <<"0", "1", "2", "3", "4", "5", "6", "7", "8", "9">>

IndexIn(c, t) == IF \E i \in 1..Len(t) : t[i] = c
                 THEN CHOOSE i \in 1..Len(t) : t[i] = c
                 ELSE 0

\* ord(c) for the characters the model uses
Ord(c) ==
    IF IndexIn(c, LowerCase) > 0 THEN 96 + IndexIn(c, LowerCase)
    ELSE IF IndexIn(c, UpperCase) > 0 THEN 64 + IndexIn(c, UpperCase)
    ELSE IF IndexIn(c, Digits) > 0 THEN 47 + IndexIn(c, Digits)
    ELSE IF c = "_" THEN 95
    ELSE IF c = "." THEN 46
    ELSE IF c = "/" THEN 47
    ELSE IF c = "+" THEN 43
    ELSE IF c = "-" THEN 45
    ELSE 32

\* str.lower()
LowerChar(c) == IF IndexIn(c, UpperCase) > 0 THEN LowerCase[IndexIn(c, UpperCase)] ELSE c
Lower(s) == [i \in 1..Len(s) |-> LowerChar(s[i])]

\* `sub in s`
Contains(s, sub) ==
    \E i \in 0..(Len(s) - Len(sub)) : \A j \in 1..Len(sub) : s[i + j] = sub[j]

\* s.endswith(suffix)
EndsWith(s, suffix) ==
    /\ Len(suffix) <= Len(s)
    /\ \A j \in 1..Len(suffix) : s[Len(s) - Len(suffix) + j] = suffix[j]

Abs(x) == IF x < 0 THEN 0 - x ELSE x

---------------------------------------------------------------------------
(* Names of the tools, as log_and_format_error receives them.              *)

fn_get_chats == <<"g", "e", "t", "_", "c", "h", "a", "t", "s">>
fn_get_messages == <<"g", "e", "t", "_", "m", "e", "s", "s", "a", "g", "e", "s">>
fn_list_messages == <<"l", "i", "s", "t", "_", "m", "e", "s", "s", "a", "g", "e", "s">>
fn_send_file == <<"s", "e", "n", "d", "_", "f", "i", "l", "e">>
fn_send_voice == <<"s", "e", "n", "d", "_", "v", "o", "i", "c", "e">>
fn_send_sticker == <<"s", "e", "n", "d", "_", "s", "t", "i", "c", "k", "e", "r">>
fn_edit_chat_photo == <<"e", "d", "i", "t", "_", "c", "h", "a", "t", "_", "p", "h", "o", "t", "o">>
fn_download_media == <<"d", "o", "w", "n", "l", "o", "a", "d", "_", "m", "e", "d", "i", "a">>
fn_set_profile_photo == <<"s", "e", "t", "_", "p", "r", "o", "f", "i", "l", "e", "_", "p", "h", "o", "t", "o">>
fn_leave_chat == <<"l", "e", "a", "v", "e", "_", "c", "h", "a", "t">>
fn_create_group == <<"c", "r", "e", "a", "t", "e", "_", "g", "r", "o", "u", "p">>
fn_add_contact == <<"a", "d", "d", "_", "c", "o", "n", "t", "a", "c", "t">>

---------------------------------------------------------------------------
(* Exceptions.                                                             *)

\* str(e) of the exceptions the client library raises in the model
msg_not_found == <<"n", "o", " ", "e", "n", "t", "i", "t", "y">>
msg_no_attribute == <<"n", "o", " ", "a", "t", "t", "r", "i", "b", "u", "t", "e">>
msg_peer_flood == <<"P", "E", "E", "R", "_", "F", "L", "O", "O", "D">>
msg_invalid_chat == <<"I", "n", "v", "a", "l", "i", "d", " ", "c", "h", "a", "t">>
msg_timeout == <<"t", "i", "m", "e", "o", "u", "t">>

NoExc == [cls |-> "", msg |-> <<>>]

\* The classes of the model and the classes each one is an instance of.
Mro(cls) ==
    CASE cls = "ValueError" -> {"ValueError", "Exception"}
      [] cls = "AttributeError" -> {"AttributeError", "Exception"}
      [] cls = "TypeError" -> {"TypeError", "Exception"}
      [] cls = "ImportError" -> {"ImportError", "Exception"}
      [] cls = "TimeoutError" -> {"TimeoutError", "OSError", "Exception"}
      [] cls = "FileNotFoundError" -> {"FileNotFoundError", "OSError", "Exception"}
      [] cls = "RPCError" -> {"RPCError", "Exception"}
      [] cls = "UserNotMutualContactError" ->
             {"UserNotMutualContactError", "RPCError", "Exception"}
      [] cls = "UserPrivacyRestrictedError" ->
             {"UserPrivacyRestrictedError", "RPCError", "Exception"}
      [] cls = "Exception" -> {"Exception"}
      [] OTHER -> {}

\* isinstance(e, classes), the test an `except classes` clause makes
IsInstance(e, classes) == Mro(e.cls) \cap classes # {}

\* What a client-library call can raise.
LibExc == {
    [cls |-> "ValueError", msg |-> msg_not_found],
    [cls |-> "AttributeError", msg |-> msg_no_attribute],
    [cls |-> "RPCError", msg |-> msg_peer_flood],
    [cls |-> "RPCError", msg |-> msg_invalid_chat] }

\* The outcome of one client-library call: NoExc when it returns.
Outcomes == {NoExc} \cup LibExc

\* The outcomes of the first n calls of an invocation.
Tape(n) == [1..n -> Outcomes]

\* The same, the calls raising errors of their own besides.
TapeWith(n, more) == [1..n -> Outcomes \cup more]

---------------------------------------------------------------------------
(* The logger (main.py 65-96).                                             *)

LevelNo(level) ==
    CASE level = "DEBUG" -> 10
      [] level = "INFO" -> 20
      [] level = "WARNING" -> 30
      [] level = "ERROR" -> 40

\* logger.setLevel(logging.ERROR)
LoggerLevel == "ERROR"

\* logger.<level>(msg): the record reaches the handlers only at or above the level
Emit(level, msg, records) ==
    IF LevelNo(level) >= LevelNo(LoggerLevel)
    THEN Append(records, [level |-> level, msg |-> msg])
    ELSE records

---------------------------------------------------------------------------
(* log_and_format_error (main.py 99-145).                                  *)

None == "None"

ERROR_PREFIXES == <<
    [key |-> <<"c", "h", "a", "t">>, value |-> "CHAT"],
    [key |-> <<"m", "s", "g">>, value |-> "MSG"],
    [key |-> <<"c", "o", "n", "t", "a", "c", "t">>, value |-> "CONTACT"],
    [key |-> <<"g", "r", "o", "u", "p">>, value |-> "GROUP"],
    [key |-> <<"m", "e", "d", "i", "a">>, value |-> "MEDIA"],
    [key |-> <<"p", "r", "o", "f", "i", "l", "e">>, value |-> "PROFILE"],
    [key |-> <<"a", "u", "t", "h">>, value |-> "AUTH"],
    [key |-> <<"a", "d", "m", "i", "n">>, value |-> "ADMIN"] >>

\* hash(s) of a str: a keyed hash of the characters, the key being the seed
\* the interpreter drew at start-up; 16 bits wide here, signed.
RECURSIVE HashFold(_, _)
HashFold(h, s) ==
    IF s = <<>> THEN h
    ELSE HashFold((h * 31 + Ord(Head(s))) % 65536, Tail(s))

PyHash(seed, s) ==
    LET u == HashFold((seed * 40503) % 65536, s)
    IN IF u >= 32768 THEN u - 65536 ELSE u

\* format(n, "03d")
Format03d(n) ==
    IF n < 1000 THEN <<n \div 100, (n \div 10) % 10, n % 10>>
    ELSE <<n \div 1000>> \o <<(n \div 100) % 10, (n \div 10) % 10, n % 10>>

\* lines 127-134: the first key of ERROR_PREFIXES, in insertion order, that
\* occurs in the lowered function name; "GEN" when none does
DerivePrefix(function_name) ==
    LET hits == {i \in 1..Len(ERROR_PREFIXES) :
                     Contains(Lower(function_name), ERROR_PREFIXES[i].key)}
    IN IF hits = {} THEN "GEN"
       ELSE ERROR_PREFIXES[CHOOSE i \in hits : \A j \in hits : i <= j].value

CodedFmt == "An error occurred (code: {error_code}). Check mcp_errors.log for details."

\* Mutation: the code is derived from the exception text as well as the name.
log_and_format_error_HashesError(seed, records, function_name, error, prefix, kwargs) ==
    LET p == IF prefix = None THEN DerivePrefix(function_name) ELSE prefix
        error_code == [prefix |-> p,
                       num |-> Format03d(Abs(PyHash(seed, function_name \o error.msg)) % 1000)]
    IN [text |-> [fmt |-> CodedFmt, vals |-> error_code],
        logged |-> Emit("ERROR",
                        [fmt |-> "{function_name} failed ({context}): {error}",
                         function_name |-> function_name, context |-> kwargs,
                         error |-> error],
                        records)]

\* Mutation: the context parameters are put into the returned message.
log_and_format_error_ShowsContext(seed, records, function_name, error, prefix, kwargs) ==
    LET p == IF prefix = None THEN DerivePrefix(function_name) ELSE prefix
        error_code == [prefix |-> p,
                       num |-> Format03d(Abs(PyHash(seed, function_name)) % 1000),
                       context |-> kwargs]
    IN [text |-> [fmt |-> CodedFmt, vals |-> error_code],
        logged |-> Emit("ERROR",
                        [fmt |-> "{function_name} failed ({context}): {error}",
                         function_name |-> function_name, context |-> kwargs,
                         error |-> error],
                        records)]

\* The returned string (text) and the log after logger.exception (line 142),
\* given the seed of this run and the records logged so far.
log_and_format_error(seed, records, function_name, error, prefix, kwargs) ==
    LET p == IF prefix = None THEN DerivePrefix(function_name) ELSE prefix
        error_code == [prefix |-> p,
                       num |-> Format03d(Abs(PyHash(seed, function_name)) % 1000)]
    IN [text |-> [fmt |-> CodedFmt, vals |-> error_code],
        logged |-> Emit("ERROR",
                        [fmt |-> "{function_name} failed ({context}): {error}",
                         function_name |-> function_name, context |-> kwargs,
                         error |-> error],
                        records)]

---------------------------------------------------------------------------
(* An invocation: the calls issued and the records logged so far, and how  *)
(* a block of the tool's code ends.                                        *)

Start == [calls |-> <<>>, logged |-> <<>>]

\* `await client.<name>(...)`: the call is issued and the library answers
\* with the next outcome of the tape
Issue(st, name, tape) ==
    [st EXCEPT !.calls = Append(@, [name |-> name, exc |-> tape[Len(@) + 1]])]

\* the same, the argument of the call being kept
IssueArg(st, name, arg, tape) ==
    [st EXCEPT !.calls = Append(@, [name |-> name, exc |-> tape[Len(@) + 1], arg |-> arg])]

\* the same, the library's answer being given
IssueWith(st, name, outcome) ==
    [st EXCEPT !.calls = Append(@, [name |-> name, exc |-> outcome])]

LastExc(st) == st.calls[Len(st.calls)].exc
Failed(st) == LastExc(st) # NoExc

Log(st, level, msg) == [st EXCEPT !.logged = Emit(level, msg, @)]

NoStr == [fmt |-> "", vals |-> <<>>]

\* `return <string>`
Return(st, fmt, vals) ==
    [kind |-> "str", s |-> [fmt |-> fmt, vals |-> vals], exc |-> NoExc,
     calls |-> st.calls, logged |-> st.logged]

\* an exception leaves the block
Raise(st, e) ==
    [kind |-> "exc", s |-> NoStr, exc |-> e, calls |-> st.calls, logged |-> st.logged]

\* try: <block r> except <classes> as e: <handler>
Except(r, classes, handler(_)) ==
    IF r.kind = "exc" /\ IsInstance(r.exc, classes) THEN handler(r) ELSE r

\* `return log_and_format_error(function_name, error, **kwargs)`
ReturnError(st, function_name, error, kwargs) ==
    LET r == log_and_format_error(hashSeed, st.logged, function_name, error, None, kwargs)
    IN [kind |-> "str", s |-> r.text, exc |-> NoExc,
        calls |-> st.calls, logged |-> r.logged]

\* seq[start:end]
PyIndex(i, n) == IF i < 0 THEN (IF i + n < 0 THEN 0 ELSE i + n)
                 ELSE (IF i > n THEN n ELSE i)
PySlice(seq, start, end) ==
    LET lo == PyIndex(start, Len(seq))
        hi == PyIndex(end, Len(seq))
    IN IF lo >= hi THEN <<>> ELSE SubSeq(seq, lo + 1, hi)

---------------------------------------------------------------------------
(* get_chats (main.py 189-212) and get_messages (main.py 215-237).         *)

\* the dialogs of an account that has n of them: their chat ids, in order
Dialogs(n) == [i \in 1..n |-> i]

\* the history of a chat that holds n messages: their ids, newest first
History(n) == [i \in 1..n |-> n + 1 - i]

\* client.get_messages(entity, limit=..., add_offset=...): at most `limit`
\* messages of the history after skipping add_offset
client_get_messages(history, limit, add_offset) ==
    PySlice(history, add_offset, add_offset + limit)

\* Mutation: the range test forgets the page size.
get_chats_PageOnly(page, page_size, dialogs, tape) ==
    LET c1 == Issue(Start, "get_dialogs", tape)
        start == (page - 1) * page_size
        end == start + page_size
        body ==
            IF Failed(c1) THEN Raise(c1, LastExc(c1))
            ELSE IF page - 1 >= Len(dialogs) THEN Return(c1, "Page out of range.", <<>>)
            ELSE Return(c1, "Chat ID: {chat_id}, Title: {title}",
                        PySlice(dialogs, start, end))
    IN Except(body, {"Exception"},
              LAMBDA r : ReturnError(r, fn_get_chats, r.exc, <<>>))

\* Mutation: a page ends one dialog too late.
get_chats_Overlap(page, page_size, dialogs, tape) ==
    LET c1 == Issue(Start, "get_dialogs", tape)
        start == (page - 1) * page_size
        end == start + page_size + 1
        body ==
            IF Failed(c1) THEN Raise(c1, LastExc(c1))
            ELSE IF start >= Len(dialogs) THEN Return(c1, "Page out of range.", <<>>)
            ELSE Return(c1, "Chat ID: {chat_id}, Title: {title}",
                        PySlice(dialogs, start, end))
    IN Except(body, {"Exception"},
              LAMBDA r : ReturnError(r, fn_get_chats, r.exc, <<>>))

get_chats(page, page_size, dialogs, tape) ==
    LET c1 == Issue(Start, "get_dialogs", tape)                       \* 198
        start == (page - 1) * page_size                               \* 199
        end == start + page_size                                      \* 200
        body ==
            IF Failed(c1) THEN Raise(c1, LastExc(c1))
            ELSE IF start >= Len(dialogs)                             \* 201
                 THEN Return(c1, "Page out of range.", <<>>)
            ELSE Return(c1, "Chat ID: {chat_id}, Title: {title}",     \* 203-210
                        PySlice(dialogs, start, end))
    IN Except(body, {"Exception"},                                    \* 211
              LAMBDA r : ReturnError(r, fn_get_chats, r.exc, <<>>))

get_messages(chat_id, page, page_size, history, tape) ==
    LET c1 == Issue(Start, "get_entity", tape)                        \* 225
        offset == (page - 1) * page_size                              \* 226
        c2 == Issue(c1, "get_messages", tape)                         \* 227
        messages == client_get_messages(history, page_size, offset)
        body ==
            IF Failed(c1) THEN Raise(c1, LastExc(c1))
            ELSE IF Failed(c2) THEN Raise(c2, LastExc(c2))
            ELSE IF messages = <<>>                                   \* 228
                 THEN Return(c2, "No messages found for this page.", <<>>)
            ELSE Return(c2, "ID: {msg.id} | Date: {msg.date} | Message: {msg.message}",
                        messages)
    IN Except(body, {"Exception"},                                    \* 234
              LAMBDA r : ReturnError(r, fn_get_messages, r.exc,
                                     <<[k |-> "chat_id", v |-> chat_id],
                                       [k |-> "page", v |-> page],
                                       [k |-> "page_size", v |-> page_size]>>))

---------------------------------------------------------------------------
(* list_messages (main.py 324-416).                                        *)

\* A date argument "YYYY-MM-DD" is its three numbers; NoDate is the argument
\* None.  An instant is a number of ticks since 0001-01-01 00:00 UTC, a day
\* being TicksPerDay ticks and a tick standing for the microsecond.
NoDate == [y |-> 0, m |-> 0, d |-> 0]

IsLeap(y) == (y % 4 = 0) /\ ((y % 100 # 0) \/ (y % 400 = 0))
DaysInMonth(y, m) ==
    IF m = 2 THEN (IF IsLeap(y) THEN 29 ELSE 28)
    ELSE IF m \in {4, 6, 9, 11} THEN 30 ELSE 31
RECURSIVE DaysBeforeMonth(_, _)
DaysBeforeMonth(y, m) ==
    IF m = 1 THEN 0 ELSE DaysBeforeMonth(y, m - 1) + DaysInMonth(y, m - 1)

\* date.toordinal(): 0001-01-01 is day 1
Ordinal(date) ==
    LET p == date.y - 1
    IN p * 365 + (p \div 4) - (p \div 100) + (p \div 400)
       + DaysBeforeMonth(date.y, date.m) + date.d

\* datetime.strptime(s, "%Y-%m-%d") raises ValueError unless s is a date
strptime_ok(date) ==
    /\ date.y \in 1..9999
    /\ date.m \in 1..12
    /\ date.d \in 1..DaysInMonth(date.y, date.m)

\* strptime(...).replace(tzinfo=utc): midnight UTC of the day
strptime(date) == (Ordinal(date) - 1) * TicksPerDay

\* Mutation: the end of the range is not moved to the end of the day.
ToDateObj_Midnight(to_date) == strptime(to_date)

\* lines 367-376: strptime(to_date) + timedelta(days=1, microseconds=-1)
ToDateObj(to_date) == strptime(to_date) + TicksPerDay - 1

\* lines 390-395: the test that keeps a fetched message
KeepMessage(msg, from_date, to_date) ==
    /\ ~(from_date # NoDate /\ msg.date < strptime(from_date))
    /\ ~(to_date # NoDate /\ msg.date > ToDateObj(to_date))

list_messages(chat_id, limit, from_date, to_date, history, tape) ==
    LET c1 == Issue(Start, "get_entity", tape)                        \* 343
        c2 == Issue(c1, "get_messages", tape)                         \* 385
        fetched == client_get_messages(history, limit, 0)
        messages ==
            IF from_date # NoDate \/ to_date # NoDate                 \* 388
            THEN SelectSeq(fetched, LAMBDA msg : KeepMessage(msg, from_date, to_date))
            ELSE fetched
        body ==
            IF Failed(c1) THEN Raise(c1, LastExc(c1))
            ELSE IF from_date # NoDate /\ ~strptime_ok(from_date)     \* 349-363
                 THEN Return(c1, "Invalid from_date format. Use YYYY-MM-DD.", <<>>)
            ELSE IF to_date # NoDate /\ ~strptime_ok(to_date)         \* 365-378
                 THEN Return(c1, "Invalid to_date format. Use YYYY-MM-DD.", <<>>)
            ELSE IF Failed(c2) THEN Raise(c2, LastExc(c2))
            ELSE IF messages = <<>>                                   \* 398
                 THEN Return(c2, "No messages found matching the criteria.", <<>>)
            ELSE Return(c2, "ID: {msg.id} | {sender}Date: {msg.date} | Message: {msg.message}",
                        messages)
    IN Except(body, {"Exception"},                                    \* 415
              LAMBDA r : ReturnError(r, fn_list_messages, r.exc,
                                     <<[k |-> "chat_id", v |-> chat_id]>>))

---------------------------------------------------------------------------
(* Files: send_file (1067-1087), download_media (1090-1115),               *)
(* set_profile_photo (1136-1147), edit_chat_photo (1366-1396),             *)
(* send_voice (1861-1888), send_sticker (2170-2189).                       *)

path_voice == <<"/", "t", "/", "v", ".", "O", "G", "G">>
path_sticker == <<"/", "t", "/", "s", ".", "w", "e", "b", "p">>
path_photo == <<"p", ".", "j", "p", "g">>
ext_ogg == <<".", "o", "g", "g">>
ext_opus == <<".", "o", "p", "u", "s">>
ext_webp == <<".", "w", "e", "b", "p">>
msg_no_file == <<"N", "o", " ", "s", "u", "c", "h", " ", "f", "i", "l", "e">>

\* What is at a path: nothing, a directory, or a regular file the process
\* may or may not read.
FileKinds == {"missing", "directory", "unreadable", "readable"}
isfile(fs) == fs \in {"unreadable", "readable"}          \* os.path.isfile
access_R_OK(fs) == fs \in {"directory", "readable"}      \* os.access(path, os.R_OK)

\* os.path.dirname
RECURSIVE RStripSlash(_)
RStripSlash(s) ==
    IF s # <<>> /\ s[Len(s)] = "/" THEN RStripSlash(SubSeq(s, 1, Len(s) - 1)) ELSE s
dirname(path) ==
    LET slashes == {i \in 1..Len(path) : path[i] = "/"}
        i == IF slashes = {} THEN 0 ELSE CHOOSE k \in slashes : \A j \in slashes : j <= k
        head == SubSeq(path, 1, i)
    IN IF head # <<>> /\ RStripSlash(head) # <<>> THEN RStripSlash(head) ELSE head

\* client.upload_file(path) and client.send_file(entity, path): the library
\* opens the file itself, and fails when it cannot
OpenOutcome(fs, outcome) ==
    IF isfile(fs) /\ access_R_OK(fs) THEN outcome
    ELSE [cls |-> "FileNotFoundError", msg |-> msg_no_file]

\* Mutation: the entity is resolved before the path is looked at.
send_file_ResolvesFirst(chat_id, file_path, fs, tape) ==
    LET c1 == Issue(Start, "get_entity", tape)
        c2 == IssueWith(c1, "send_file", OpenOutcome(fs, tape[2]))
        body ==
            IF Failed(c1) THEN Raise(c1, LastExc(c1))
            ELSE IF ~isfile(fs) THEN Return(c1, "File not found: {file_path}", file_path)
            ELSE IF ~access_R_OK(fs)
                 THEN Return(c1, "File is not readable: {file_path}", file_path)
            ELSE IF Failed(c2) THEN Raise(c2, LastExc(c2))
            ELSE Return(c2, "File sent to chat {chat_id}.", chat_id)
    IN Except(body, {"Exception"},
              LAMBDA r : ReturnError(r, fn_send_file, r.exc,
                                     <<[k |-> "chat_id", v |-> chat_id],
                                       [k |-> "file_path", v |-> file_path]>>))

\* Mutation: the path is handed to the library without being looked at.
send_file_IgnoresFile(chat_id, file_path, fs, tape) ==
    LET c1 == Issue(Start, "get_entity", tape)
        c2 == Issue(c1, "send_file", tape)
        body ==
            IF Failed(c1) THEN Raise(c1, LastExc(c1))
            ELSE IF Failed(c2) THEN Raise(c2, LastExc(c2))
            ELSE Return(c2, "File sent to chat {chat_id}.", chat_id)
    IN Except(body, {"Exception"},
              LAMBDA r : ReturnError(r, fn_send_file, r.exc,
                                     <<[k |-> "chat_id", v |-> chat_id],
                                       [k |-> "file_path", v |-> file_path]>>))

send_file(chat_id, file_path, fs, tape) ==
    LET c1 == Issue(Start, "get_entity", tape)                        \* 1081
        c2 == IssueWith(c1, "send_file", OpenOutcome(fs, tape[2]))    \* 1082
        body ==
            IF ~isfile(fs)                                            \* 1077
            THEN Return(Start, "File not found: {file_path}", file_path)
            ELSE IF ~access_R_OK(fs)                                  \* 1079
                 THEN Return(Start, "File is not readable: {file_path}", file_path)
            ELSE IF Failed(c1) THEN Raise(c1, LastExc(c1))
            ELSE IF Failed(c2) THEN Raise(c2, LastExc(c2))
            ELSE Return(c2, "File sent to chat {chat_id}.", chat_id)
    IN Except(body, {"Exception"},                                    \* 1084
              LAMBDA r : ReturnError(r, fn_send_file, r.exc,
                                     <<[k |-> "chat_id", v |-> chat_id],
                                       [k |-> "file_path", v |-> file_path]>>))

\* mime is what mimetypes.guess_type(file_path) finds in the system's tables
send_voice(chat_id, file_path, fs, mime, tape) ==
    LET c1 == Issue(Start, "get_entity", tape)                        \* 1884
        c2 == IssueWith(c1, "send_file", OpenOutcome(fs, tape[2]))    \* 1885
        body ==
            IF ~isfile(fs)                                            \* 1870
            THEN Return(Start, "File not found: {file_path}", file_path)
            ELSE IF ~access_R_OK(fs)                                  \* 1872
                 THEN Return(Start, "File is not readable: {file_path}", file_path)
            ELSE IF ~(mime # None                                     \* 1875-1882
                      /\ (\/ mime = "audio/ogg"
                          \/ EndsWith(Lower(file_path), ext_ogg)
                          \/ EndsWith(Lower(file_path), ext_opus)))
                 THEN Return(Start, "Voice file must be .ogg or .opus format.", <<>>)
            ELSE IF Failed(c1) THEN Raise(c1, LastExc(c1))
            ELSE IF Failed(c2) THEN Raise(c2, LastExc(c2))
            ELSE Return(c2, "Voice message sent to chat {chat_id}.", chat_id)
    IN Except(body, {"Exception"},                                    \* 1887
              LAMBDA r : ReturnError(r, fn_send_voice, r.exc,
                                     <<[k |-> "chat_id", v |-> chat_id],
                                       [k |-> "file_path", v |-> file_path]>>))

send_sticker(chat_id, file_path, fs, tape) ==
    LET c1 == Issue(Start, "get_entity", tape)                        \* 2185
        c2 == IssueWith(c1, "send_file", OpenOutcome(fs, tape[2]))    \* 2186
        body ==
            IF ~isfile(fs)                                            \* 2179
            THEN Return(Start, "Sticker file not found: {file_path}", file_path)
            ELSE IF ~access_R_OK(fs)                                  \* 2181
                 THEN Return(Start, "Sticker file is not readable: {file_path}", file_path)
            ELSE IF ~EndsWith(Lower(file_path), ext_webp)             \* 2183
                 THEN Return(Start, "Sticker file must be a .webp file.", <<>>)
            ELSE IF Failed(c1) THEN Raise(c1, LastExc(c1))
            ELSE IF Failed(c2) THEN Raise(c2, LastExc(c2))
            ELSE Return(c2, "Sticker sent to chat {chat_id}.", chat_id)
    IN Except(body, {"Exception"},                                    \* 2188
              LAMBDA r : ReturnError(r, fn_send_sticker, r.exc,
                                     <<[k |-> "chat_id", v |-> chat_id],
                                       [k |-> "file_path", v |-> file_path]>>))

\* msg is the message get_messages(ids=...) finds: "None", "text" (no media)
\* or "media"; created tells whether the file exists after the download
download_media(chat_id, message_id, file_path, msg, dir_writable, created, tape) ==
    LET c1 == Issue(Start, "get_entity", tape)                        \* 1100
        c2 == Issue(c1, "get_messages", tape)                         \* 1101
        c3 == Issue(c2, "download_media", tape)                       \* 1108
        dir_path == IF dirname(file_path) # <<>> THEN dirname(file_path) ELSE <<".">>
        body ==
            IF Failed(c1) THEN Raise(c1, LastExc(c1))
            ELSE IF Failed(c2) THEN Raise(c2, LastExc(c2))
            ELSE IF msg # "media"                                     \* 1102
                 THEN Return(c2, "No media found in the specified message.", <<>>)
            ELSE IF ~dir_writable                                     \* 1106
                 THEN Return(c2, "Directory not writable: {dir_path}", dir_path)
            ELSE IF Failed(c3) THEN Raise(c3, LastExc(c3))
            ELSE IF ~created                                          \* 1109
                 THEN Return(c3, "Download failed: file not created at {file_path}", file_path)
            ELSE Return(c3, "Media downloaded to {file_path}.", file_path)
    IN Except(body, {"Exception"},                                    \* 1112
              LAMBDA r : ReturnError(r, fn_download_media, r.exc,
                                     <<[k |-> "chat_id", v |-> chat_id],
                                       [k |-> "message_id", v |-> message_id],
                                       [k |-> "file_path", v |-> file_path]>>))

set_profile_photo(file_path, fs, tape) ==
    LET c1 == IssueWith(Start, "upload_file", OpenOutcome(fs, tape[1]))   \* 1143
        c2 == Issue(c1, "photos.UploadProfilePhotoRequest", tape)         \* 1142
        body ==
            IF Failed(c1) THEN Raise(c1, LastExc(c1))
            ELSE IF Failed(c2) THEN Raise(c2, LastExc(c2))
            ELSE Return(c2, "Profile photo updated.", <<>>)
    IN Except(body, {"Exception"},                                    \* 1146
              LAMBDA r : ReturnError(r, fn_set_profile_photo, r.exc,
                                     <<[k |-> "file_path", v |-> file_path]>>))

\* kind is the class of the object get_entity returns
edit_chat_photo(chat_id, file_path, fs, kind, tape) ==
    LET c1 == Issue(Start, "get_entity", tape)                        \* 1377
        c2 == IssueWith(c1, "upload_file", OpenOutcome(fs, tape[2]))  \* 1378
        c3 == Issue(c2, IF kind = "Channel" THEN "channels.EditPhotoRequest"
                        ELSE "messages.EditChatPhotoRequest", tape)
        body ==
            IF ~isfile(fs)                                            \* 1372
            THEN Return(Start, "Photo file not found: {file_path}", file_path)
            ELSE IF ~access_R_OK(fs)                                  \* 1374
                 THEN Return(Start, "Photo file not readable: {file_path}", file_path)
            ELSE IF Failed(c1) THEN Raise(c1, LastExc(c1))
            ELSE IF Failed(c2) THEN Raise(c2, LastExc(c2))
            ELSE IF kind \notin {"Channel", "Chat"}                   \* 1380-1391
                 THEN Return(c2, "Cannot edit photo for this entity type ({type(entity)}).", kind)
            ELSE IF Failed(c3) THEN Raise(c3, LastExc(c3))
            ELSE Return(c3, "Chat {chat_id} photo updated.", chat_id)
    IN Except(body, {"Exception"},                                    \* 1394
              LAMBDA r : ReturnError(Log(r, "ERROR", [fmt |-> "edit_chat_photo failed"]),
                                     fn_edit_chat_photo, r.exc,
                                     <<[k |-> "chat_id", v |-> chat_id],
                                       [k |-> "file_path", v |-> file_path]>>))

---------------------------------------------------------------------------
(* edit_chat_title (main.py 1347-1363) and delete_chat_photo (1396-1424).  *)

fn_edit_chat_title == <<"e", "d", "i", "t", "_", "c", "h", "a", "t", "_", "t", "i", "t", "l", "e">>
fn_delete_chat_photo == <<"d", "e", "l", "e", "t", "e", "_", "c", "h", "a", "t", "_", "p", "h", "o", "t", "o">>

edit_chat_title(chat_id, title, kind, tape) ==
    LET c1 == Issue(Start, "get_entity", tape)                        \* 1353
        c2 == Issue(c1, IF kind = "Channel" THEN "channels.EditTitleRequest"
                        ELSE "messages.EditChatTitleRequest", tape)   \* 1354-1357
        body ==
            IF Failed(c1) THEN Raise(c1, LastExc(c1))
            ELSE IF kind \notin {"Channel", "Chat"}                   \* 1358-1359
                 THEN Return(c1, "Cannot edit title for this entity type ({type(entity)}).", kind)
            ELSE IF Failed(c2) THEN Raise(c2, LastExc(c2))
            ELSE Return(c2, "Chat {chat_id} title updated to '{title}'.",
                        [chat_id |-> chat_id, title |-> title])       \* 1360
    IN Except(body, {"Exception"},                                    \* 1361-1363
              LAMBDA r : ReturnError(Log(r, "ERROR", [fmt |-> "edit_chat_title failed"]),
                                     fn_edit_chat_title, r.exc,
                                     <<[k |-> "chat_id", v |-> chat_id],
                                       [k |-> "title", v |-> title]>>))

delete_chat_photo(chat_id, kind, tape) ==
    LET c1 == Issue(Start, "get_entity", tape)                        \* 1402
        c2 == Issue(c1, IF kind = "Channel" THEN "channels.EditPhotoRequest"
                        ELSE "messages.EditChatPhotoRequest", tape)   \* 1403-1415
        body ==
            IF Failed(c1) THEN Raise(c1, LastExc(c1))
            ELSE IF kind \notin {"Channel", "Chat"}                   \* 1416-1417
                 THEN Return(c1, "Cannot delete photo for this entity type ({type(entity)}).", kind)
            ELSE IF Failed(c2) THEN Raise(c2, LastExc(c2))
            ELSE Return(c2, "Chat {chat_id} photo deleted.", chat_id) \* 1419
    IN Except(body, {"Exception"},                                    \* 1420-1422
              LAMBDA r : ReturnError(Log(r, "ERROR", [fmt |-> "delete_chat_photo failed"]),
                                     fn_delete_chat_photo, r.exc,
                                     <<[k |-> "chat_id", v |-> chat_id]>>))

---------------------------------------------------------------------------
(* leave_chat (main.py 970-1046).                                          *)

EntityKinds == {"User", "Chat", "Channel"}

kw_invalid == <<"i", "n", "v", "a", "l", "i", "d">>
kw_chat == <<"c", "h", "a", "t">>
kw_peer_flood == <<"P", "E", "E", "R", "_", "F", "L", "O", "O", "D">>
msg_cannot_leave == <<"C", "a", "n", "n", "o", "t", " ", "l", "e", "a", "v", "e", " ", "c", "h", "a", "t">>
msg_appears_channel == <<"a", "p", "p", "e", "a", "r", "s", " ", "t", "o", " ", "b", "e", " ",
                         "a", " ", "c", "h", "a", "n", "n", "e", "l">>

\* lines 1032-1046, the handler of the outer try
leave_chat_handler(r, chat_id) ==
    LET l == Log(r, "ERROR", [fmt |-> "leave_chat failed (chat_id={chat_id})"])    \* 1033
        error_str == Lower(r.exc.msg)                                             \* 1036
        kwargs == <<[k |-> "chat_id", v |-> chat_id]>>
    IN IF Contains(error_str, kw_invalid) /\ Contains(error_str, kw_chat)         \* 1037
       THEN ReturnError(l, fn_leave_chat,
                        [cls |-> "Exception", msg |-> msg_appears_channel], kwargs)
       ELSE ReturnError(l, fn_leave_chat, r.exc, kwargs)                          \* 1046

\* lines 993-1020, the branch of a basic group: two attempts
leave_chat_basic(c1, chat_id, tape) ==
    LET kwargs == <<[k |-> "chat_id", v |-> chat_id]>>
        a1 == Issue(c1, "get_me", tape)                                           \* 995
        a2 == IF Failed(a1) THEN a1
              ELSE Issue(a1, "messages.DeleteChatUserRequest", tape)              \* 996
        w == Log(a2, "WARNING", [fmt |-> "First leave attempt failed"])           \* 1005
        b1 == Issue(w, "get_me", tape)                                            \* 1011
        b2 == IF Failed(b1) THEN b1
              ELSE Issue(b1, "messages.DeleteChatUserRequest", tape)              \* 1012
    IN IF ~Failed(a2)
       THEN Return(a2, "Left basic group {chat_name} (ID: {chat_id}).", chat_id)  \* 1002
       ELSE IF ~Failed(b2)
            THEN Return(b2, "Left basic group {chat_name} (ID: {chat_id}).", chat_id)
            ELSE ReturnError(b2, fn_leave_chat, LastExc(b2), kwargs)              \* 1020

\* Mutation: the two isinstance tests are interchanged.
leave_chat_Swapped(chat_id, kind, tape) ==
    LET kwargs == <<[k |-> "chat_id", v |-> chat_id]>>
        c1 == Issue(Start, "get_entity", tape)
        c2 == Issue(c1, "channels.LeaveChannelRequest", tape)
        body ==
            IF Failed(c1) THEN Raise(c1, LastExc(c1))
            ELSE IF kind = "Chat"
                 THEN IF Failed(c2) THEN ReturnError(c2, fn_leave_chat, LastExc(c2), kwargs)
                      ELSE Return(c2, "Left channel/supergroup {chat_name} (ID: {chat_id}).",
                                  chat_id)
            ELSE IF kind = "Channel" THEN leave_chat_basic(c1, chat_id, tape)
            ELSE ReturnError(c1, fn_leave_chat,
                             [cls |-> "Exception", msg |-> msg_cannot_leave], kwargs)
    IN Except(body, {"Exception"}, LAMBDA r : leave_chat_handler(r, chat_id))

\* Mutation: the outer handler catches the lookup failures only.
leave_chat_NarrowExcept(chat_id, kind, tape) ==
    LET kwargs == <<[k |-> "chat_id", v |-> chat_id]>>
        c1 == Issue(Start, "get_entity", tape)
        c2 == Issue(c1, "channels.LeaveChannelRequest", tape)
        body ==
            IF Failed(c1) THEN Raise(c1, LastExc(c1))
            ELSE IF kind = "Channel"
                 THEN IF Failed(c2) THEN ReturnError(c2, fn_leave_chat, LastExc(c2), kwargs)
                      ELSE Return(c2, "Left channel/supergroup {chat_name} (ID: {chat_id}).",
                                  chat_id)
            ELSE IF kind = "Chat" THEN leave_chat_basic(c1, chat_id, tape)
            ELSE ReturnError(c1, fn_leave_chat,
                             [cls |-> "Exception", msg |-> msg_cannot_leave], kwargs)
    IN Except(body, {"ValueError"}, LAMBDA r : leave_chat_handler(r, chat_id))

leave_chat(chat_id, kind, tape) ==
    LET kwargs == <<[k |-> "chat_id", v |-> chat_id]>>
        c1 == Issue(Start, "get_entity", tape)                                    \* 979
        c2 == Issue(c1, "channels.LeaveChannelRequest", tape)                     \* 985
        body ==
            IF Failed(c1) THEN Raise(c1, LastExc(c1))
            ELSE IF kind = "Channel"                                              \* 982
                 THEN IF Failed(c2) THEN ReturnError(c2, fn_leave_chat, LastExc(c2), kwargs)
                      ELSE Return(c2, "Left channel/supergroup {chat_name} (ID: {chat_id}).",
                                  chat_id)
            ELSE IF kind = "Chat" THEN leave_chat_basic(c1, chat_id, tape)        \* 991
            ELSE ReturnError(c1, fn_leave_chat,                                   \* 1021-1030
                             [cls |-> "Exception", msg |-> msg_cannot_leave], kwargs)
    IN Except(body, {"Exception"}, LAMBDA r : leave_chat_handler(r, chat_id))     \* 1032

---------------------------------------------------------------------------
(* create_group (main.py 863-918) and add_contact (main.py 753-803).       *)

msg_import == <<"c", "a", "n", "n", "o", "t", " ", "i", "m", "p", "o", "r", "t">>

\* try: ... except <classes1>: <handler1> except <classes2>: <handler2>
Except2(r, classes1, handler1(_), classes2, handler2(_)) ==
    IF r.kind # "exc" THEN r
    ELSE IF IsInstance(r.exc, classes1) THEN handler1(r)
    ELSE IF IsInstance(r.exc, classes2) THEN handler2(r)
    ELSE r

\* lines 875-878: get_entity for each id in turn, up to the first that raises
RECURSIVE ResolveAll(_, _, _)
ResolveAll(st, ids, tape) ==
    IF ids = <<>> THEN st
    ELSE LET c == Issue(st, "get_entity", tape)
         IN IF Failed(c) THEN c ELSE ResolveAll(c, Tail(ids), tape)

\* Mutation: an identifier that does not resolve is passed over.
create_group_SkipsUnresolved(title, user_ids, shape, found, tape) ==
    LET kwargs == <<[k |-> "title", v |-> title], [k |-> "user_ids", v |-> user_ids]>>
        loop == ResolveAll(Start, user_ids, tape)
        c == Issue(loop, "messages.CreateChatRequest", tape)
        d == Issue(c, "get_dialogs", tape)
        create ==
            IF Failed(c) THEN Raise(c, LastExc(c))
            ELSE IF shape # "none"
                 THEN Return(c, "Group created with ID: {id}", shape)
            ELSE IF Failed(d) THEN Raise(d, LastExc(d))
            ELSE IF found THEN Return(d, "Group created with ID: {dialog.id}", title)
            ELSE Return(d, "Group created successfully. Please check your recent chats for '{title}'.",
                        title)
        body ==
            IF user_ids = <<>>
                 THEN Return(loop, "Error: No valid users provided", <<>>)
            ELSE Except(create, {"Exception"},
                        LAMBDA r : IF Contains(r.exc.msg, kw_peer_flood)
                                   THEN Return(r, "Error: Cannot create group due to Telegram limits. Try again later.", <<>>)
                                   ELSE Raise(r, r.exc))
    IN Except(body, {"Exception"},
              LAMBDA r : ReturnError(Log(r, "ERROR", [fmt |-> "create_group failed"]),
                                     fn_create_group, r.exc, kwargs))

\* shape is the attribute of the CreateChatRequest result that holds the new
\* chat ("chats", "chat", "chat_id" or "none"); found tells whether a recent
\* dialog carries the title
create_group(title, user_ids, shape, found, tape) ==
    LET kwargs == <<[k |-> "title", v |-> title], [k |-> "user_ids", v |-> user_ids]>>
        loop == ResolveAll(Start, user_ids, tape)                                 \* 875
        c == Issue(loop, "messages.CreateChatRequest", tape)                      \* 889
        d == Issue(c, "get_dialogs", tape)                                        \* 903
        create ==
            IF Failed(c) THEN Raise(c, LastExc(c))
            ELSE IF shape # "none"                                                \* 892-898
                 THEN Return(c, "Group created with ID: {id}", shape)
            ELSE IF Failed(d) THEN Raise(d, LastExc(d))
            ELSE IF found THEN Return(d, "Group created with ID: {dialog.id}", title)  \* 906
            ELSE Return(d, "Group created successfully. Please check your recent chats for '{title}'.",
                        title)
        body ==
            IF user_ids # <<>> /\ Failed(loop)                                    \* 879-881
            THEN Return(Log(loop, "ERROR", [fmt |-> "Failed to get entity for user ID {user_id}: {e}"]),
                        "Error: Could not find user with ID {user_id}",
                        user_ids[Len(loop.calls)])
            ELSE IF user_ids = <<>>                                               \* 883
                 THEN Return(loop, "Error: No valid users provided", <<>>)
            ELSE Except(create, {"Exception"},                                    \* 911-915
                        LAMBDA r : IF Contains(r.exc.msg, kw_peer_flood)
                                   THEN Return(r, "Error: Cannot create group due to Telegram limits. Try again later.", <<>>)
                                   ELSE Raise(r, r.exc))
    IN Except(body, {"Exception"},                                                \* 916
              LAMBDA r : ReturnError(Log(r, "ERROR", [fmt |-> "create_group failed"]),
                                     fn_create_group, r.exc, kwargs))

\* import_ok tells whether `from telethon.tl.types import InputPhoneContact`
\* succeeds; imported is the truth of result.imported
add_contact(phone, import_ok, imported, tape) ==
    LET kwargs == <<[k |-> "phone", v |-> phone]>>
        c1 == Issue(Start, "contacts.ImportContactsRequest", tape)                \* 766
        primary ==
            IF ~import_ok                                                         \* 764
            THEN Raise(Start, [cls |-> "ImportError", msg |-> msg_import])
            ELSE IF Failed(c1) THEN Raise(c1, LastExc(c1))
            ELSE IF imported                                                      \* 775
                 THEN Return(c1, "Contact {first_name} {last_name} added successfully.", <<>>)
            ELSE Return(c1, "Contact not added. Response: {str(result)}", <<>>)
        alt(r) ==                                                                 \* 781-800
            LET a1 == Issue(r, "contacts.ImportContactsRequest", tape)
            IN IF Failed(a1)
               THEN ReturnError(Log(a1, "ERROR", [fmt |-> "add_contact (alt method) failed"]),
                                fn_add_contact, LastExc(a1), kwargs)
               ELSE IF imported
                    THEN Return(a1, "Contact {first_name} {last_name} added successfully (alt method).", <<>>)
               ELSE Return(a1, "Contact not added. Alternative method response: {str(result)}", <<>>)
    IN Except2(primary,
               {"ImportError", "AttributeError"}, alt,                            \* 779
               {"Exception"},                                                     \* 801
               LAMBDA r : ReturnError(Log(r, "ERROR", [fmt |-> "add_contact failed"]),
                                      fn_add_contact, r.exc, kwargs))

---------------------------------------------------------------------------
(* Tools that put the text of an exception into what they return:          *)
(* get_chat (main.py 481-557), invite_to_group (main.py 921-961),          *)
(* get_gif_search (main.py 2192-2244).                                     *)

fn_get_chat == <<"g", "e", "t", "_", "c", "h", "a", "t">>
fn_invite_to_group == <<"i", "n", "v", "i", "t", "e", "_", "t", "o", "_",
                        "g", "r", "o", "u", "p">>
fn_get_gif_search == <<"g", "e", "t", "_", "g", "i", "f", "_", "s", "e", "a", "r", "c", "h">>

msg_not_mutual == <<"U", "S", "E", "R", "_", "N", "O", "T", "_", "M", "U", "T", "U", "A", "L">>
msg_privacy == <<"U", "S", "E", "R", "_", "P", "R", "I", "V", "A", "C", "Y">>

\* what channels.InviteToChannelRequest raises besides
InviteExc == {[cls |-> "UserNotMutualContactError", msg |-> msg_not_mutual],
              [cls |-> "UserPrivacyRestrictedError", msg |-> msg_privacy]}

\* `return f"...{e}"`: the returned string carries str(e)
ReturnShowing(st, fmt, vals, e) ==
    [kind |-> "str", s |-> [fmt |-> fmt, vals |-> vals, shown |-> e.msg], exc |-> NoExc,
     calls |-> st.calls, logged |-> st.logged]

\* kind is the class of the object get_entity returns
get_chat(chat_id, kind, tape) ==
    LET c1 == Issue(Start, "get_entity", tape)                                    \* 490
        has_title == kind \in {"Chat", "Channel"}                                 \* 499
        c2 == IF has_title THEN Issue(c1, "get_participants", tape) ELSE c1       \* 513
        c3 == Issue(c2, "get_dialogs", tape)                                      \* 535
        l3 == IF Failed(c3)                                                       \* 552
              THEN Log(c3, "WARNING", [fmt |-> "Could not get dialog info for {chat_id}: {diag_ex}"])
              ELSE c3
        body ==
            IF Failed(c1) THEN Raise(c1, LastExc(c1))
            ELSE IF has_title /\ Failed(c2)                                       \* 515-516
                 THEN ReturnShowing(l3, "ID ... Participants: Error fetching ({pe}) ...",
                                    chat_id, LastExc(c2))
            ELSE Return(l3, "ID: {entity.id} ...", chat_id)                       \* 555
    IN Except(body, {"Exception"},                                                \* 556
              LAMBDA r : ReturnError(r, fn_get_chat, r.exc,
                                     <<[k |-> "chat_id", v |-> chat_id]>>))

invite_to_group(group_id, user_ids, tape) ==
    LET kwargs == <<[k |-> "group_id", v |-> group_id], [k |-> "user_ids", v |-> user_ids]>>
        c1 == Issue(Start, "get_entity", tape)                                    \* 931
        loop == ResolveAll(c1, user_ids, tape)                                    \* 934-937
        c3 == Issue(loop, "channels.InviteToChannelRequest", tape)                \* 942
        invite ==                                                                 \* 941-959
            IF ~Failed(c3)
            THEN Return(c3, "Successfully invited {invited_count} users to {entity.title}",
                        group_id)
            ELSE IF IsInstance(LastExc(c3), {"UserNotMutualContactError"})
                 THEN Return(c3, "Error: Cannot invite users who are not mutual contacts. Please ensure the users are in your contacts and have added you back.", <<>>)
            ELSE IF IsInstance(LastExc(c3), {"UserPrivacyRestrictedError"})
                 THEN Return(c3, "Error: One or more users have privacy settings that prevent you from adding them.", <<>>)
            ELSE ReturnError(c3, fn_invite_to_group, LastExc(c3), kwargs)
        body ==
            IF Failed(c1) THEN Raise(c1, LastExc(c1))
            ELSE IF Len(loop.calls) > 1 /\ Failed(loop)
                 THEN IF IsInstance(LastExc(loop), {"ValueError"})                \* 938-939
                      THEN ReturnShowing(loop,
                                         "Error: User with ID {user_id} could not be found. {e}",
                                         user_ids[Len(loop.calls) - 1], LastExc(loop))
                      ELSE Raise(loop, LastExc(loop))
            ELSE invite
    IN Except(body, {"Exception"},                                                \* 961-966
              LAMBDA r : ReturnError(Log(r, "ERROR",
                                         [fmt |-> "telegram_mcp invite_to_group failed"]),
                                     fn_invite_to_group, r.exc, kwargs))

\* found tells whether the search returns any GIF
get_gif_search(query, limit, found, tape) ==
    LET kwargs == <<[k |-> "query", v |-> query], [k |-> "limit", v |-> limit]>>
        c1 == Issue(Start, "messages.SearchGifsRequest", tape)                    \* 2203
        c2 == Issue(c1, "messages.SearchRequest", tape)                           \* 2217
        answer(st) == IF found THEN Return(st, "json.dumps(gif_ids)", limit)
                      ELSE Return(st, "[]", <<>>)
        fallback ==                                                               \* 2213-2241
            IF Failed(c2)
            THEN ReturnShowing(c2, "Could not search GIFs using available methods: {inner_e}",
                               <<>>, LastExc(c2))
            ELSE answer(c2)
        body ==
            IF ~Failed(c1) THEN answer(c1)
            ELSE IF IsInstance(LastExc(c1), {"AttributeError", "ImportError"})    \* 2212
                 THEN fallback
            ELSE Raise(c1, LastExc(c1))
    IN Except(body, {"Exception"},                                                \* 2242
              LAMBDA r : ReturnError(Log(r, "ERROR", [fmt |-> "get_gif_search failed"]),
                                     fn_get_gif_search, r.exc, kwargs))

---------------------------------------------------------------------------
(* Tools that swallow an exception: get_contact_chats (main.py 615-663)    *)
(* and join_chat_by_link (main.py 1712-1769).                              *)

fn_get_contact_chats == <<"g", "e", "t", "_", "c", "o", "n", "t", "a", "c", "t", "_", "c", "h", "a", "t", "s">>
fn_join_chat_by_link == <<"j", "o", "i", "n", "_", "c", "h", "a", "t", "_", "b", "y", "_", "l", "i", "n", "k">>

get_contact_chats(contact_id, kind, has_direct, common, tape) ==
    LET c1 == Issue(Start, "get_entity", tape)                                    \* 625
        c2 == Issue(c1, "get_dialogs", tape)                                      \* 635
        c3 == Issue(c2, "get_common_chats", tape)                                 \* 651
        direct == IF has_direct THEN <<"Direct Chat ID: {id}, Type: Private">> ELSE <<>>
        results == IF Failed(c3)                                                  \* 656-657
                   THEN direct \o <<"Could not retrieve common groups.">>
                   ELSE direct \o [i \in 1..common |->
                                      "Chat ID: {chat.id}, Title: {chat.title}, Type: {chat_type}"]
        body ==
            IF Failed(c1) THEN Raise(c1, LastExc(c1))
            ELSE IF kind # "User"                                                 \* 626
                 THEN Return(c1, "ID {contact_id} is not a user/contact.", contact_id)
            ELSE IF Failed(c2) THEN Raise(c2, LastExc(c2))
            ELSE IF results = <<>>                                                \* 659
                 THEN Return(c3, "No chats found with {contact_name} (ID: {contact_id}).",
                             contact_id)
            ELSE Return(c3, "Chats with {contact_name} (ID: {contact_id}):", results)
    IN Except(body, {"Exception"},                                                \* 663
              LAMBDA r : ReturnError(r, fn_get_contact_chats, r.exc,
                                     <<[k |-> "contact_id", v |-> contact_id]>>))

\* str(e) of the errors of an invite, and the words the tool looks for
msg_expired == <<"T", "h", "e", " ", "i", "n", "v", "i", "t", "e", " ", "h", "a", "s", "h", " ", "h", "a", "s", " ", "e", "x", "p", "i", "r", "e", "d">>
msg_hash_invalid == <<"T", "h", "e", " ", "i", "n", "v", "i", "t", "e", " ", "h", "a", "s", "h", " ", "i", "s", " ", "i", "n", "v", "a", "l", "i", "d">>
msg_already == <<"T", "h", "e", " ", "u", "s", "e", "r", " ", "i", "s", " ", "a", "l", "r", "e", "a", "d", "y", " ", "a", " ", "p", "a", "r", "t", "i", "c", "i", "p", "a", "n", "t">>
msg_admin_required == <<"C", "h", "a", "t", " ", "a", "d", "m", "i", "n", " ", "p", "r", "i", "v", "i", "l", "e", "g", "e", "s", " ", "a", "r", "e", " ", "r", "e", "q", "u", "i", "r", "e", "d">>
msg_users_too_much == <<"T", "h", "e", " ", "m", "a", "x", "i", "m", "u", "m", " ", "n", "u", "m", "b", "e", "r", " ", "o", "f", " ", "u", "s", "e", "r", "s", " ", "h", "a", "s", " ", "b", "e", "e", "n", " ", "e", "x", "c", "e", "e", "d", "e", "d">>
kw_expired == <<"e", "x", "p", "i", "r", "e", "d">>
kw_already == <<"a", "l", "r", "e", "a", "d", "y">>
kw_participant == <<"p", "a", "r", "t", "i", "c", "i", "p", "a", "n", "t">>
kw_admin == <<"a", "d", "m", "i", "n">>
kw_too_much == <<"t", "o", "o", " ", "m", "u", "c", "h">>
kw_too_many == <<"t", "o", "o", " ", "m", "a", "n", "y">>

\* InviteHashExpiredError, InviteHashInvalidError, UserAlreadyParticipantError,
\* ChatAdminRequiredError, UsersTooMuchError
JoinExc == {[cls |-> "RPCError", msg |-> msg_expired],
            [cls |-> "RPCError", msg |-> msg_hash_invalid],
            [cls |-> "RPCError", msg |-> msg_already],
            [cls |-> "RPCError", msg |-> msg_admin_required],
            [cls |-> "RPCError", msg |-> msg_users_too_much]}

\* Mutation: the "+" of the last part of the link is kept.
HashPart_KeepsPlus(link) ==
    LET slashes == {i \in 1..Len(link) : link[i] = "/"}
        last == IF slashes = {} THEN 0 ELSE CHOOSE k \in slashes : \A j \in slashes : j <= k
    IN SubSeq(link, last + 1, Len(link))

\* lines 1719-1724: link.split("/")[-1] without a leading "+"
HashPart(link) ==
    LET slashes == {i \in 1..Len(link) : link[i] = "/"}
        last == IF slashes = {} THEN 0 ELSE CHOOSE k \in slashes : \A j \in slashes : j <= k
        part == SubSeq(link, last + 1, Len(link))
    IN IF slashes # {} /\ part # <<>> /\ part[1] = "+" THEN Tail(part) ELSE part

\* member tells whether CheckChatInviteRequest answers with the chat itself;
\* titled whether ImportChatInviteRequest answers with the chats joined
join_chat_by_link(link, member, titled, tape) ==
    LET hash_part == HashPart(link)
        c1 == IssueArg(Start, "messages.CheckChatInviteRequest", hash_part, tape) \* 1737
        c2 == IssueArg(c1, "messages.ImportChatInviteRequest", hash_part, tape)   \* 1748
        err_str == Lower(LastExc(c2).msg)                                         \* 1754
        join ==
            IF ~Failed(c2)
            THEN IF titled THEN Return(c2, "Successfully joined chat: {chat_title}", <<>>)
                 ELSE Return(c2, "Joined chat via invite hash.", <<>>)
            ELSE IF Contains(err_str, kw_expired)
                 THEN Return(c2, "The invite hash has expired and is no longer valid.", <<>>)
            ELSE IF Contains(err_str, kw_invalid)
                 THEN Return(c2, "The invite hash is invalid or malformed.", <<>>)
            ELSE IF Contains(err_str, kw_already) /\ Contains(err_str, kw_participant)
                 THEN Return(c2, "You are already a member of this chat.", <<>>)
            ELSE IF Contains(err_str, kw_admin)
                 THEN Return(c2, "Cannot join this chat - requires admin approval.", <<>>)
            ELSE IF Contains(err_str, kw_too_much) \/ Contains(err_str, kw_too_many)
                 THEN Return(c2, "Cannot join this chat - it has reached maximum number of participants.", <<>>)
            ELSE Raise(c2, LastExc(c2))                                           \* 1766
        body ==
            IF ~Failed(c1) /\ member                                              \* 1738-1741
            THEN Return(c1, "You are already a member of this chat: {chat_title}", <<>>)
            ELSE join                                                             \* 1742-1744
    IN Except(body, {"Exception"},                                                \* 1767
              LAMBDA r : ReturnError(Log(r, "ERROR", [fmt |-> "join_chat_by_link failed (link={link})"]),
                                     fn_join_chat_by_link, r.exc,
                                     <<[k |-> "link", v |-> link]>>))

fn_import_chat_invite == <<"i", "m", "p", "o", "r", "t", "_", "c", "h", "a", "t", "_", "i", "n", "v", "i", "t", "e">>

\* import_chat_invite (main.py 1805-1858)
import_chat_invite(hash, member, titled, tape) ==
    LET hash_part == IF hash # <<>> /\ hash[1] = "+" THEN Tail(hash) ELSE hash      \* 1812-1813
        c1 == IssueArg(Start, "messages.CheckChatInviteRequest", hash_part, tape) \* 1826
        c2 == IssueArg(c1, "messages.ImportChatInviteRequest", hash_part, tape)   \* 1837
        err_str == Lower(LastExc(c2).msg)                                         \* 1843
        join ==
            IF ~Failed(c2)
            THEN IF titled THEN Return(c2, "Successfully joined chat: {chat_title}", <<>>)
                 ELSE Return(c2, "Joined chat via invite hash.", <<>>)
            ELSE IF Contains(err_str, kw_expired)
                 THEN Return(c2, "The invite hash has expired and is no longer valid.", <<>>)
            ELSE IF Contains(err_str, kw_invalid)
                 THEN Return(c2, "The invite hash is invalid or malformed.", <<>>)
            ELSE IF Contains(err_str, kw_already) /\ Contains(err_str, kw_participant)
                 THEN Return(c2, "You are already a member of this chat.", <<>>)
            ELSE IF Contains(err_str, kw_admin)
                 THEN Return(c2, "Cannot join this chat - requires admin approval.", <<>>)
            ELSE IF Contains(err_str, kw_too_much) \/ Contains(err_str, kw_too_many)
                 THEN Return(c2, "Cannot join this chat - it has reached maximum number of participants.", <<>>)
            ELSE Raise(c2, LastExc(c2))                                           \* 1855
        body ==
            IF ~Failed(c1) /\ member                                              \* 1827-1830
            THEN Return(c1, "You are already a member of this chat: {chat_title}", <<>>)
            ELSE join                                                             \* 1831-1833
    IN Except(body, {"Exception"},                                                \* 1856
              LAMBDA r : ReturnError(Log(r, "ERROR", [fmt |-> "import_chat_invite failed (hash={hash})"]),
                                     fn_import_chat_invite, r.exc,
                                     <<[k |-> "hash", v |-> hash]>>))

---------------------------------------------------------------------------
(* Fallback chains: get_invite_link (main.py 1669-1709) and                *)
(* export_chat_invite (main.py 1772-1802).                                 *)

fn_get_invite_link == <<"g", "e", "t", "_", "i", "n", "v", "i", "t", "e", "_", "l", "i", "n", "k">>
fn_export_chat_invite == <<"e", "x", "p", "o", "r", "t", "_", "c", "h", "a", "t", "_", "i", "n", "v", "i", "t", "e">>

\* full is what GetFullChatRequest answers: "link" (full_chat.invite_link is
\* set), "none" (it is None) or "absent" (the answer has no such attribute)
get_invite_link(chat_id, kind, full, tape) ==
    LET c1 == Issue(Start, "get_entity", tape)                                    \* 1675
        c2 == Issue(c1, "messages.ExportChatInviteRequest", tape)                 \* 1681
        w2 == Log(c2, "WARNING", [fmt |-> "ExportChatInviteRequest failed: {e1}"])    \* 1683-1688
        c3 == Issue(w2, "export_chat_invite_link", tape)                          \* 1692
        w3 == Log(c3, "WARNING", [fmt |-> "export_chat_invite_link failed: {e2}"])    \* 1695
        c4 == Issue(w3, "messages.GetFullChatRequest", tape)                      \* 1700
        w4 == Log(c4, "WARNING", [fmt |-> "GetFullChatRequest failed: {e3}"])     \* 1704
        last ==                                                                   \* 1698-1706
            IF kind \notin {"Chat", "Channel"}
            THEN Return(w3, "Could not retrieve invite link for this chat.", <<>>)
            ELSE IF Failed(c4)
                 THEN Return(w4, "Could not retrieve invite link for this chat.", <<>>)
            ELSE IF full = "link" THEN Return(c4, "{full_chat.full_chat.invite_link}", chat_id)
            ELSE IF full = "none" THEN Return(c4, "No invite link available.", <<>>)
            ELSE Return(c4, "Could not retrieve invite link for this chat.", <<>>)
        body ==
            IF Failed(c1) THEN Raise(c1, LastExc(c1))
            ELSE IF ~Failed(c2) THEN Return(c2, "{result.link}", chat_id)         \* 1682
            ELSE IF ~Failed(c3) THEN Return(c3, "{invite_link}", chat_id)         \* 1693
            ELSE last
    IN Except(body, {"Exception"},                                                \* 1707
              LAMBDA r : ReturnError(Log(r, "ERROR", [fmt |-> "get_invite_link failed (chat_id={chat_id})"]),
                                     fn_get_invite_link, r.exc,
                                     <<[k |-> "chat_id", v |-> chat_id]>>))

export_chat_invite(chat_id, tape) ==
    LET kwargs == <<[k |-> "chat_id", v |-> chat_id]>>
        c1 == Issue(Start, "get_entity", tape)                                    \* 1778
        c2 == Issue(c1, "messages.ExportChatInviteRequest", tape)                 \* 1784
        w2 == Log(c2, "WARNING", [fmt |-> "ExportChatInviteRequest failed: {e1}"])    \* 1786-1791
        c3 == Issue(w2, "export_chat_invite_link", tape)                          \* 1795
        w3 == Log(c3, "WARNING", [fmt |-> "export_chat_invite_link failed: {e2}"])    \* 1798
        body ==
            IF Failed(c1) THEN Raise(c1, LastExc(c1))
            ELSE IF ~Failed(c2) THEN Return(c2, "{result.link}", chat_id)         \* 1785
            ELSE IF ~Failed(c3) THEN Return(c3, "{invite_link}", chat_id)         \* 1796
            ELSE ReturnError(w3, fn_export_chat_invite, LastExc(c3), kwargs)      \* 1799
    IN Except(body, {"Exception"},                                                \* 1800
              LAMBDA r : ReturnError(Log(r, "ERROR", [fmt |-> "export_chat_invite failed (chat_id={chat_id})"]),
                                     fn_export_chat_invite, r.exc, kwargs))

---------------------------------------------------------------------------
(* set_privacy_settings (main.py 1191-1283).                               *)

fn_set_privacy_settings == <<"s", "e", "t", "_", "p", "r", "i", "v", "a", "c", "y", "_", "s", "e", "t", "t", "i", "n", "g", "s">>
msg_tlobject == <<"T", "L", "O", "b", "j", "e", "c", "t", " ", "w", "a", "s", " ", "e", "x", "p", "e", "c", "t", "e", "d">>
msg_bad_type == <<"a", "n", " ", "i", "n", "t", "e", "g", "e", "r", " ", "i", "s", " ", "r", "e", "q", "u", "i", "r", "e", "d">>
kw_tlobject == <<"T", "L", "O", "b", "j", "e", "c", "t", " ", "w", "a", "s", " ", "e", "x", "p", "e", "c", "t", "e", "d">>

\* what account.SetPrivacyRequest raises on a mismatch of types
PrivacyExc == {[cls |-> "TypeError", msg |-> msg_tlobject],
               [cls |-> "TypeError", msg |-> msg_bad_type]}

\* key_mapping, lines 1216-1220
PrivacyKeys == {"status", "phone", "profile_photo"}

\* lines 1239-1244 and 1256-1261: get_entity for every id, outs[i] being the
\* library's answer for the i-th; a failure is logged as a warning and the
\* loop goes on
RECURSIVE ResolveEach(_, _, _)
ResolveEach(st, ids, outs) ==
    IF ids = <<>> THEN st
    ELSE LET c == IssueWith(st, "get_entity", Head(outs))
             n == IF Failed(c)
                  THEN Log(c, "WARNING", [fmt |-> "Could not get entity for user ID {user_id}: {user_err}"])
                  ELSE c
         IN ResolveEach(n, Tail(ids), Tail(outs))

\* the ids of the list that were resolved
Resolved(ids, outs) ==
    LET ok == {i \in 1..Len(ids) : outs[i] = NoExc}
        RECURSIVE Pick(_)
        Pick(i) == IF i > Len(ids) THEN <<>>
                   ELSE (IF i \in ok THEN <<ids[i]>> ELSE <<>>) \o Pick(i + 1)
    IN Pick(1)

\* allow_users and disallow_users are lists of ids, None being the empty list;
\* allow_outs and disallow_outs are the library's answers to the resolutions,
\* outcome its answer to account.SetPrivacyRequest
set_privacy_settings(key, allow_users, disallow_users, allow_outs, disallow_outs, outcome) ==
    LET kwargs == <<[k |-> "key", v |-> key]>>
        a == ResolveEach(Start, allow_users, allow_outs)                          \* 1238-1244
        allow_entities == Resolved(allow_users, allow_outs)
        allow_rules ==
            IF allow_users = <<>>                                                 \* 1232-1234
            THEN <<[rule |-> "InputPrivacyValueAllowAll", users |-> <<>>]>>
            ELSE IF allow_entities # <<>>                                         \* 1246-1247
                 THEN <<[rule |-> "InputPrivacyValueAllowUsers", users |-> allow_entities]>>
            ELSE <<>>
        d == ResolveEach(a, disallow_users, disallow_outs)                        \* 1253-1261
        disallow_entities == Resolved(disallow_users, disallow_outs)
        disallow_rules ==
            IF disallow_entities # <<>>                                           \* 1263-1264
            THEN <<[rule |-> "InputPrivacyValueDisallowUsers", users |-> disallow_entities]>>
            ELSE <<>>
        rules == allow_rules \o disallow_rules
        c == [d EXCEPT !.calls = Append(@, [name |-> "account.SetPrivacyRequest",  \* 1271-1273
                                            exc |-> outcome,
                                            arg |-> [key |-> key, rules |-> rules]])]
        apply ==
            IF ~Failed(c)
            THEN Return(c, "Privacy settings for {key} updated successfully.", key)   \* 1274
            ELSE IF IsInstance(LastExc(c), {"TypeError"}) /\ Contains(LastExc(c).msg, kw_tlobject)
                 THEN Return(c, "Error: Privacy settings API call failed due to type mismatch. This is likely a version compatibility issue with Telethon.", <<>>)
            ELSE Raise(c, LastExc(c))                                             \* 1279
        body ==
            IF key \notin PrivacyKeys                                             \* 1223
            THEN Return(Start, "Error: Unsupported privacy key '{key}'. Supported keys: status, phone, profile_photo", key)
            ELSE apply
    IN Except(body, {"Exception"},                                                \* 1280
              LAMBDA r : ReturnError(Log(r, "ERROR", [fmt |-> "set_privacy_settings failed (key={key})"]),
                                     fn_set_privacy_settings, r.exc, kwargs))

---------------------------------------------------------------------------
(* get_message_context (main.py 702-746), send_message (240-253) and       *)
(* delete_message (1926-1936).                                             *)

fn_send_message == <<"s", "e", "n", "d", "_", "m", "e", "s", "s", "a", "g", "e">>
fn_get_message_context == <<"g", "e", "t", "_", "m", "e", "s", "s", "a", "g", "e", "_", "c", "o", "n", "t", "e", "x", "t">>
fn_delete_message == <<"d", "e", "l", "e", "t", "e", "_", "m", "e", "s", "s", "a", "g", "e">>

\* the ids of a set, newest (largest) first
RECURSIVE Descending(_)
Descending(ids) ==
    IF ids = {} THEN <<>>
    ELSE LET top == CHOOSE i \in ids : \A j \in ids : j <= i
         IN <<top>> \o Descending(ids \ {top})

\* the same, oldest first
RECURSIVE Ascending(_)
Ascending(ids) ==
    IF ids = {} THEN <<>>
    ELSE LET low == CHOOSE i \in ids : \A j \in ids : i <= j
         IN <<low>> \o Ascending(ids \ {low})

\* client.get_messages(chat, limit=limit, max_id=max_id): the newest `limit`
\* messages with an id below max_id, newest first
messages_below(msgs, max_id, limit) ==
    PySlice(Descending({i \in msgs : i < max_id}), 0, limit)

\* client.get_messages(chat, ids=id): the message, or None
NoMessage == [t |-> "None"]
message_by_id(msgs, id) == IF id \in msgs THEN [t |-> "Message", id |-> id] ELSE NoMessage

\* client.get_messages(chat, limit=limit, min_id=min_id, reverse=True): the
\* oldest `limit` messages with an id above min_id, oldest first
messages_above(msgs, min_id, limit) ==
    PySlice(Ascending({i \in msgs : i > min_id}), 0, limit)

\* list.sort(key=lambda m: m.id): a stable sort by id
RECURSIVE SortById(_)
SortById(seq) ==
    IF seq = <<>> THEN <<>>
    ELSE LET rest == SortById(Tail(seq))
             smaller == SelectSeq(rest, LAMBDA m : m < Head(seq))
             others == SelectSeq(rest, LAMBDA m : m >= Head(seq))
         IN smaller \o <<Head(seq)>> \o others

\* Mutation: the messages after the central one are fetched from it on.
get_message_context_FromCentral(chat_id, message_id, context_size, before, central, after, tape) ==
    LET c1 == Issue(Start, "get_entity", tape)
        c2 == Issue(c1, "get_messages", tape)
        c3 == Issue(c2, "get_messages", tape)
        c4 == Issue(c3, "get_messages", tape)
        central_message == IF central = NoMessage THEN <<>> ELSE <<central.id>>
        all_messages == SortById(before \o central_message \o central_message \o after)
        body ==
            IF Failed(c1) THEN Raise(c1, LastExc(c1))
            ELSE IF Failed(c2) THEN Raise(c2, LastExc(c2))
            ELSE IF Failed(c3) THEN Raise(c3, LastExc(c3))
            ELSE IF Failed(c4) THEN Raise(c4, LastExc(c4))
            ELSE IF central_message = <<>>
                 THEN Return(c4, "Message with ID {message_id} not found in chat {chat_id}.",
                             <<>>)
            ELSE Return(c4, "Context for message {message_id} in chat {chat_id}:",
                        [i \in 1..Len(all_messages) |->
                            [id |-> all_messages[i],
                             highlight |-> all_messages[i] = message_id]])
    IN Except(body, {"Exception"},
              LAMBDA r : ReturnError(r, fn_get_message_context, r.exc,
                                     <<[k |-> "chat_id", v |-> chat_id],
                                       [k |-> "message_id", v |-> message_id],
                                       [k |-> "context_size", v |-> context_size]>>))

\* before, central and after are the answers of the three fetches
get_message_context(chat_id, message_id, context_size, before, central, after, tape) ==
    LET c1 == Issue(Start, "get_entity", tape)                                    \* 713
        c2 == Issue(c1, "get_messages", tape)                                     \* 715
        c3 == Issue(c2, "get_messages", tape)                                     \* 716
        c4 == Issue(c3, "get_messages", tape)                                     \* 722-724
        central_message == IF central = NoMessage THEN <<>> ELSE <<central.id>> \* 718-721
        all_messages == SortById(before \o central_message \o after)              \* 728-729
        body ==
            IF Failed(c1) THEN Raise(c1, LastExc(c1))
            ELSE IF Failed(c2) THEN Raise(c2, LastExc(c2))
            ELSE IF Failed(c3) THEN Raise(c3, LastExc(c3))
            ELSE IF Failed(c4) THEN Raise(c4, LastExc(c4))
            ELSE IF central_message = <<>>                                        \* 725-726
                 THEN Return(c4, "Message with ID {message_id} not found in chat {chat_id}.",
                             <<>>)
            ELSE Return(c4, "Context for message {message_id} in chat {chat_id}:",   \* 730-742
                        [i \in 1..Len(all_messages) |->
                            [id |-> all_messages[i],
                             highlight |-> all_messages[i] = message_id]])
    IN Except(body, {"Exception"},                                                \* 743
              LAMBDA r : ReturnError(r, fn_get_message_context, r.exc,
                                     <<[k |-> "chat_id", v |-> chat_id],
                                       [k |-> "message_id", v |-> message_id],
                                       [k |-> "context_size", v |-> context_size]>>))

send_message(chat_id, message, tape) ==
    LET c1 == Issue(Start, "get_entity", tape)                                    \* 249
        c2 == Issue(c1, "send_message", tape)                                     \* 250
        body ==
            IF Failed(c1) THEN Raise(c1, LastExc(c1))
            ELSE IF Failed(c2) THEN Raise(c2, LastExc(c2))
            ELSE Return(c2, "Message sent successfully.", <<>>)                   \* 251
    IN Except(body, {"Exception"},                                                \* 252
              LAMBDA r : ReturnError(r, fn_send_message, r.exc,
                                     <<[k |-> "chat_id", v |-> chat_id]>>))

delete_message(chat_id, message_id, tape) ==
    LET c1 == Issue(Start, "get_entity", tape)                                    \* 1932
        c2 == Issue(c1, "delete_messages", tape)                                  \* 1933
        body ==
            IF Failed(c1) THEN Raise(c1, LastExc(c1))
            ELSE IF Failed(c2) THEN Raise(c2, LastExc(c2))
            ELSE Return(c2, "Message {message_id} deleted.", message_id)          \* 1934
    IN Except(body, {"Exception"},                                                \* 1935
              LAMBDA r : ReturnError(r, fn_delete_message, r.exc,
                                     <<[k |-> "chat_id", v |-> chat_id],
                                       [k |-> "message_id", v |-> message_id]>>))

---------------------------------------------------------------------------
(* The registered tools: the names of the functions decorated with         *)
(* @mcp.tool(), each of which passes its own name to log_and_format_error. *)

fn_edit_message == <<"e", "d", "i", "t", "_", "m", "e", "s", "s", "a", "g", "e">>

ToolNames == {
    fn_get_chats,
    fn_get_messages,
    fn_send_message,
    <<"l", "i", "s", "t", "_", "c", "o", "n", "t", "a", "c", "t", "s">>,
    <<"s", "e", "a", "r", "c", "h", "_", "c", "o", "n", "t", "a", "c", "t", "s">>,
    <<"g", "e", "t", "_", "c", "o", "n", "t", "a", "c", "t", "_", "i", "d", "s">>,
    fn_list_messages,
    <<"l", "i", "s", "t", "_", "c", "h", "a", "t", "s">>,
    fn_get_chat,
    <<"g", "e", "t", "_", "d", "i", "r", "e", "c", "t", "_", "c", "h", "a", "t", "_", "b", "y", "_", "c", "o", "n", "t", "a", "c", "t">>,
    fn_get_contact_chats,
    <<"g", "e", "t", "_", "l", "a", "s", "t", "_", "i", "n", "t", "e", "r", "a", "c", "t", "i", "o", "n">>,
    <<"g", "e", "t", "_", "m", "e", "s", "s", "a", "g", "e", "_", "c", "o", "n", "t", "e", "x", "t">>,
    fn_add_contact,
    <<"d", "e", "l", "e", "t", "e", "_", "c", "o", "n", "t", "a", "c", "t">>,
    <<"b", "l", "o", "c", "k", "_", "u", "s", "e", "r">>,
    <<"u", "n", "b", "l", "o", "c", "k", "_", "u", "s", "e", "r">>,
    <<"g", "e", "t", "_", "m", "e">>,
    fn_create_group,
    fn_invite_to_group,
    fn_leave_chat,
    <<"g", "e", "t", "_", "p", "a", "r", "t", "i", "c", "i", "p", "a", "n", "t", "s">>,
    fn_send_file,
    fn_download_media,
    <<"u", "p", "d", "a", "t", "e", "_", "p", "r", "o", "f", "i", "l", "e">>,
    fn_set_profile_photo,
    <<"d", "e", "l", "e", "t", "e", "_", "p", "r", "o", "f", "i", "l", "e", "_", "p", "h", "o", "t", "o">>,
    <<"g", "e", "t", "_", "p", "r", "i", "v", "a", "c", "y", "_", "s", "e", "t", "t", "i", "n", "g", "s">>,
    fn_set_privacy_settings,
    <<"i", "m", "p", "o", "r", "t", "_", "c", "o", "n", "t", "a", "c", "t", "s">>,
    <<"e", "x", "p", "o", "r", "t", "_", "c", "o", "n", "t", "a", "c", "t", "s">>,
    <<"g", "e", "t", "_", "b", "l", "o", "c", "k", "e", "d", "_", "u", "s", "e", "r", "s">>,
    <<"c", "r", "e", "a", "t", "e", "_", "c", "h", "a", "n", "n", "e", "l">>,
    <<"e", "d", "i", "t", "_", "c", "h", "a", "t", "_", "t", "i", "t", "l", "e">>,
    fn_edit_chat_photo,
    <<"d", "e", "l", "e", "t", "e", "_", "c", "h", "a", "t", "_", "p", "h", "o", "t", "o">>,
    <<"p", "r", "o", "m", "o", "t", "e", "_", "a", "d", "m", "i", "n">>,
    <<"d", "e", "m", "o", "t", "e", "_", "a", "d", "m", "i", "n">>,
    <<"b", "a", "n", "_", "u", "s", "e", "r">>,
    <<"u", "n", "b", "a", "n", "_", "u", "s", "e", "r">>,
    <<"g", "e", "t", "_", "a", "d", "m", "i", "n", "s">>,
    <<"g", "e", "t", "_", "b", "a", "n", "n", "e", "d", "_", "u", "s", "e", "r", "s">>,
    fn_get_invite_link,
    fn_join_chat_by_link,
    fn_export_chat_invite,
    <<"i", "m", "p", "o", "r", "t", "_", "c", "h", "a", "t", "_", "i", "n", "v", "i", "t", "e">>,
    fn_send_voice,
    <<"f", "o", "r", "w", "a", "r", "d", "_", "m", "e", "s", "s", "a", "g", "e">>,
    fn_edit_message,
    <<"d", "e", "l", "e", "t", "e", "_", "m", "e", "s", "s", "a", "g", "e">>,
    <<"p", "i", "n", "_", "m", "e", "s", "s", "a", "g", "e">>,
    <<"u", "n", "p", "i", "n", "_", "m", "e", "s", "s", "a", "g", "e">>,
    <<"m", "a", "r", "k", "_", "a", "s", "_", "r", "e", "a", "d">>,
    <<"r", "e", "p", "l", "y", "_", "t", "o", "_", "m", "e", "s", "s", "a", "g", "e">>,
    <<"g", "e", "t", "_", "m", "e", "d", "i", "a", "_", "i", "n", "f", "o">>,
    <<"s", "e", "a", "r", "c", "h", "_", "p", "u", "b", "l", "i", "c", "_", "c", "h", "a", "t", "s">>,
    <<"s", "e", "a", "r", "c", "h", "_", "m", "e", "s", "s", "a", "g", "e", "s">>,
    <<"r", "e", "s", "o", "l", "v", "e", "_", "u", "s", "e", "r", "n", "a", "m", "e">>,
    <<"m", "u", "t", "e", "_", "c", "h", "a", "t">>,
    <<"u", "n", "m", "u", "t", "e", "_", "c", "h", "a", "t">>,
    <<"a", "r", "c", "h", "i", "v", "e", "_", "c", "h", "a", "t">>,
    <<"u", "n", "a", "r", "c", "h", "i", "v", "e", "_", "c", "h", "a", "t">>,
    <<"g", "e", "t", "_", "s", "t", "i", "c", "k", "e", "r", "_", "s", "e", "t", "s">>,
    fn_send_sticker,
    fn_get_gif_search,
    <<"s", "e", "n", "d", "_", "g", "i", "f">>,
    <<"g", "e", "t", "_", "b", "o", "t", "_", "i", "n", "f", "o">>,
    <<"s", "e", "t", "_", "b", "o", "t", "_", "c", "o", "m", "m", "a", "n", "d", "s">>,
    <<"g", "e", "t", "_", "h", "i", "s", "t", "o", "r", "y">>,
    <<"g", "e", "t", "_", "u", "s", "e", "r", "_", "p", "h", "o", "t", "o", "s">>,
    <<"g", "e", "t", "_", "u", "s", "e", "r", "_", "s", "t", "a", "t", "u", "s">>,
    <<"g", "e", "t", "_", "r", "e", "c", "e", "n", "t", "_", "a", "c", "t", "i", "o", "n", "s">>,
    <<"g", "e", "t", "_", "p", "i", "n", "n", "e", "d", "_", "m", "e", "s", "s", "a", "g", "e", "s">> }

---------------------------------------------------------------------------
(* format_entity (main.py 148-168) and format_message (main.py 171-186).   *)

\* Python values: None, a str (its characters), an int, or the MagicMock that
\* reading an attribute nobody set on a MagicMock gives
PyNone == [t |-> "None"]
PyStr(s) == [t |-> "str", s |-> s]
PyInt(n) == [t |-> "int", n |-> n]
Mock == [t |-> "MagicMock"]

\* bool(v)
Truthy(v) ==
    CASE v.t = "None" -> FALSE
      [] v.t = "str" -> v.s # <<>>
      [] v.t = "int" -> v.n # 0
      [] OTHER -> TRUE

\* An object is its class, the attributes that were set on it, and whether
\* it answers to every other attribute too (a MagicMock without a spec).
HasAttr(obj, a) == a \in DOMAIN obj.attrs \/ obj.auto                 \* hasattr
GetAttr(obj, a) == IF a \in DOMAIN obj.attrs THEN obj.attrs[a] ELSE Mock

\* the dict without keys
EmptyDict == [k \in {} |-> PyNone]

\* " ".join(parts)
RECURSIVE JoinSpace(_)
JoinSpace(parts) ==
    IF parts = <<>> THEN <<>>
    ELSE IF Len(parts) = 1 THEN parts[1]
    ELSE parts[1] \o <<" ">> \o JoinSpace(Tail(parts))

str_user == <<"u", "s", "e", "r">>
str_group == <<"g", "r", "o", "u", "p">>
str_channel == <<"c", "h", "a", "n", "n", "e", "l">>

format_entity(entity) ==
    LET first_name == GetAttr(entity, "first_name")
        last_name == GetAttr(entity, "last_name")
        username == GetAttr(entity, "username")
        phone == GetAttr(entity, "phone")
        name_parts ==
            (IF Truthy(first_name) THEN <<first_name.s>> ELSE <<>>)               \* 158-159
            \o (IF HasAttr(entity, "last_name") /\ Truthy(last_name)              \* 160-161
                THEN <<last_name.s>> ELSE <<>>)
    IN IF HasAttr(entity, "title")                                                \* 152
       THEN ("id" :> GetAttr(entity, "id"))
            @@ ("name" :> GetAttr(entity, "title"))                               \* 153
            @@ ("type" :> PyStr(IF entity.cls = "Chat" THEN str_group ELSE str_channel))  \* 154
       ELSE IF HasAttr(entity, "first_name")                                      \* 155
       THEN ("id" :> GetAttr(entity, "id"))
            @@ ("name" :> PyStr(JoinSpace(name_parts)))                             \* 162
            @@ ("type" :> PyStr(str_user))                                          \* 163
            @@ (IF HasAttr(entity, "username") /\ Truthy(username)                \* 164-165
                THEN ("username" :> username) ELSE EmptyDict)
            @@ (IF HasAttr(entity, "phone") /\ Truthy(phone)                      \* 166-167
                THEN ("phone" :> phone) ELSE EmptyDict)
       ELSE ("id" :> GetAttr(entity, "id"))                                       \* 150

\* the decimal digits of n, at least w of them
RECURSIVE Pad(_, _)
Pad(n, w) ==
    IF w <= 1 /\ n < 10 THEN <<Digits[n + 1]>>
    ELSE Pad(n \div 10, w - 1) \o <<Digits[(n % 10) + 1]>>

\* datetime.isoformat(): YYYY-MM-DDTHH:MM:SS, then .ffffff when there are
\* microseconds, then +00:00 when the datetime is aware (UTC)
isoformat(dt) ==
    Pad(dt.y, 4) \o <<"-">> \o Pad(dt.m, 2) \o <<"-">> \o Pad(dt.d, 2) \o <<"T">>
    \o Pad(dt.hh, 2) \o <<":">> \o Pad(dt.mm, 2) \o <<":">> \o Pad(dt.ss, 2)
    \o (IF dt.us # 0 THEN <<".">> \o Pad(dt.us, 6) ELSE <<>>)
    \o (IF dt.utc THEN <<"+", "0", "0", ":", "0", "0">> ELSE <<>>)

\* utils.get_peer_id(peer): the id of a user, the id of a basic group with
\* "-" before it, the id of a channel with "-100" before it
get_peer_id(peer) ==
    [mark |-> CASE peer.cls = "PeerUser" -> ""
                [] peer.cls = "PeerChat" -> "-"
                [] OTHER -> "-100",
     id |-> peer.id]

\* Mutation: has_media is always reported.
format_message_MediaAlways(message) ==
    ("id" :> message.id)
    @@ ("date" :> isoformat(message.date))
    @@ ("text" :> IF Truthy(message.message) THEN message.message.s ELSE <<>>)
    @@ (IF message.from_id # PyNone
        THEN ("from_id" :> get_peer_id(message.from_id)) ELSE EmptyDict)
    @@ ("has_media" :> (message.media # PyNone))
    @@ (IF message.media # PyNone
        THEN ("media_type" :> message.media.cls) ELSE EmptyDict)

format_message(message) ==
    ("id" :> message.id)                                                          \* 174
    @@ ("date" :> isoformat(message.date))                                        \* 175
    @@ ("text" :> IF Truthy(message.message) THEN message.message.s ELSE <<>>)    \* 176
    @@ (IF message.from_id # PyNone                                               \* 179-180
        THEN ("from_id" :> get_peer_id(message.from_id)) ELSE EmptyDict)
    @@ (IF message.media # PyNone                                                 \* 182-184
        THEN ("has_media" :> TRUE) @@ ("media_type" :> message.media.cls)
        ELSE EmptyDict)

---------------------------------------------------------------------------
(* The server process: it starts, serves one request after the other, and  *)
(* may be started again.                                                   *)

NoRet == [kind |-> "none", s |-> NoStr, exc |-> NoExc]

\* main() after client.start() has returned: mcp.run_stdio_async() is serving
Serving == [pc |-> "serving", loaded |-> TRUE, started |-> TRUE, status |-> None]
\* no message yet in the chat: the next one sent gets id 1
NoChat == [msgs |-> {}, next |-> 1]
\* no get_message_context invocation is in flight
NoCtx == [pc |-> "idle"]
NoNote == [function_name |-> <<>>, error |-> NoExc, prefix |-> None,
           kwargs |-> <<>>, run |-> 0, text |-> NoStr]

Init ==
    /\ hashSeed \in 0..MaxSeed
    /\ run = 1
    /\ tool = "none"
    /\ args = <<>>
    /\ env = <<>>
    /\ calls = <<>>
    /\ ret = NoRet
    /\ logged = <<>>
    /\ noted = NoNote
    /\ main = Serving
    /\ files = {}
    /\ chat = NoChat
    /\ ctx = NoCtx

\* The server loop dispatches a request to tool t with arguments a; the
\* world answers e; the invocation ends as r.
Finish(t, a, e, r) ==
    /\ main.pc = "serving"
    /\ tool = "none"
    /\ tool' = t
    /\ args' = a
    /\ env' = e
    /\ calls' = r.calls
    /\ ret' = [kind |-> r.kind, s |-> r.s, exc |-> r.exc]
    /\ logged' = r.logged
    /\ UNCHANGED <<hashSeed, run, noted, main>>

\* an invocation that leaves the files and the chat as they are
Invoke(t, a, e, r) ==
    /\ Finish(t, a, e, r)
    /\ UNCHANGED <<files, chat, ctx>>

\* The result goes back to the caller and the loop waits for the next request.
Respond ==
    /\ tool # "none"
    /\ tool' = "none"
    /\ args' = <<>>
    /\ env' = <<>>
    /\ calls' = <<>>
    /\ ret' = NoRet
    /\ logged' = <<>>
    /\ UNCHANGED <<hashSeed, run, noted, main, files, chat, ctx>>

\* The process ends and is started again: the interpreter draws a new seed.
Restart ==
    /\ tool = "none"
    /\ run < MaxRuns
    /\ run' = run + 1
    /\ hashSeed' \in 0..MaxSeed
    /\ UNCHANGED <<tool, args, env, calls, ret, logged, noted, main, files, chat, ctx>>

ChatIds == 1..3
Pages == 1..MaxPage
PageSizes == 1..MaxPageSize

GetChats ==
    /\ tool = "none"
    /\ \E page \in Pages, page_size \in PageSizes, n \in 0..MaxDialogs, tape \in Tape(1) :
        Invoke("get_chats", [page |-> page, page_size |-> page_size],
               [total |-> n], get_chats(page, page_size, Dialogs(n), tape))

GetMessages ==
    /\ tool = "none"
    /\ \E chat_id \in ChatIds, page \in Pages, page_size \in PageSizes,
       n \in 0..MaxDialogs, tape \in Tape(2) :
        Invoke("get_messages", [chat_id |-> chat_id, page |-> page, page_size |-> page_size],
               [total |-> n], get_messages(chat_id, page, page_size, History(n), tape))

---------------------------------------------------------------------------
(* The error normalizer on its own: the except clauses of the tools call   *)
(* it with their own name, the exception and their arguments.              *)

FnNames == {fn_get_chats, fn_get_messages, fn_leave_chat, fn_add_contact}
ErrKwargs == {<<[k |-> "chat_id", v |-> 1]>>, <<[k |-> "chat_id", v |-> 2]>>}
ErrExc == {[cls |-> "ValueError", msg |-> msg_not_found],
           [cls |-> "TimeoutError", msg |-> msg_timeout]}

LogAndFormatError ==
    /\ tool = "none"
    /\ \E function_name \in FnNames, error \in ErrExc, prefix \in {None, "AUTH"},
       kwargs \in ErrKwargs :
        LET r == log_and_format_error(hashSeed, <<>>, function_name, error, prefix, kwargs)
        IN Invoke("log_and_format_error",
                  [function_name |-> function_name, error |-> error,
                   prefix |-> prefix, kwargs |-> kwargs],
                  [run |-> run],
                  [kind |-> "str", s |-> r.text, exc |-> NoExc,
                   calls |-> <<>>, logged |-> r.logged])

\* The caller keeps the message it received, to compare later ones with it.
Note ==
    /\ tool = "log_and_format_error"
    /\ noted' = [function_name |-> args.function_name, error |-> args.error,
                 prefix |-> args.prefix, kwargs |-> args.kwargs,
                 run |-> env.run, text |-> ret.s]
    /\ tool' = "none"
    /\ args' = <<>>
    /\ env' = <<>>
    /\ calls' = <<>>
    /\ ret' = NoRet
    /\ logged' = <<>>
    /\ UNCHANGED <<hashSeed, run, main, files, chat, ctx>>

NextErr == LogAndFormatError \/ Note \/ Respond \/ Restart
SpecErr == Init /\ [][NextErr]_vars

\* the class of the object each chat id resolves to
KindOf(chat_id) == <<"User", "Chat", "Channel">>[chat_id]

\* the date arguments tried: None, two days a month's end apart, and a string
\* that names no day
DateArgs == {NoDate, [y |-> 2024, m |-> 2, d |-> 28], [y |-> 2024, m |-> 2, d |-> 29],
             [y |-> 2023, m |-> 2, d |-> 29]}

\* the instants messages carry: the first and the last tick of the days from
\* 2024-02-28 to 2024-03-01
Instants ==
    LET first == Ordinal([y |-> 2024, m |-> 2, d |-> 28]) - 1
    IN {(first + k) * TicksPerDay + tk : k \in 0..2, tk \in {0, TicksPerDay - 1}}

\* the histories of a chat: up to MaxMsgs messages, newest first
Histories ==
    UNION {{[i \in 1..n |-> [id |-> n + 1 - i, date |-> h[i]]] :
              h \in {g \in [1..n -> Instants] : \A i \in 1..(n - 1) : g[i] >= g[i + 1]}} :
           n \in 0..MaxMsgs}

ListMessages ==
    /\ tool = "none"
    /\ \E limit \in {1, MaxMsgs}, from_date \in DateArgs, to_date \in DateArgs,
       history \in Histories, tape \in Tape(2) :
        Invoke("list_messages",
               [chat_id |-> 1, limit |-> limit, from_date |-> from_date, to_date |-> to_date],
               [history |-> history],
               list_messages(1, limit, from_date, to_date, history, tape))

Paths == {path_voice, path_sticker, path_photo}

SendFile ==
    /\ tool = "none"
    /\ \E chat_id \in ChatIds, file_path \in Paths, fs \in FileKinds, tape \in Tape(2) :
        Invoke("send_file", [chat_id |-> chat_id, file_path |-> file_path],
               [fs |-> fs], send_file(chat_id, file_path, fs, tape))

SendVoice ==
    /\ tool = "none"
    /\ \E chat_id \in ChatIds, file_path \in Paths, fs \in FileKinds,
       mime \in {None, "audio/ogg", "image/jpeg"}, tape \in Tape(2) :
        Invoke("send_voice", [chat_id |-> chat_id, file_path |-> file_path],
               [fs |-> fs, mime |-> mime], send_voice(chat_id, file_path, fs, mime, tape))

SendSticker ==
    /\ tool = "none"
    /\ \E chat_id \in ChatIds, file_path \in Paths, fs \in FileKinds, tape \in Tape(2) :
        Invoke("send_sticker", [chat_id |-> chat_id, file_path |-> file_path],
               [fs |-> fs], send_sticker(chat_id, file_path, fs, tape))

EditChatPhoto ==
    /\ tool = "none"
    /\ \E chat_id \in ChatIds, file_path \in Paths, fs \in FileKinds, tape \in Tape(3) :
        Invoke("edit_chat_photo", [chat_id |-> chat_id, file_path |-> file_path],
               [fs |-> fs, kind |-> KindOf(chat_id)],
               edit_chat_photo(chat_id, file_path, fs, KindOf(chat_id), tape))

DownloadMedia ==
    /\ tool = "none"
    /\ \E chat_id \in ChatIds, file_path \in Paths, msg \in {"None", "text", "media"},
       dir_writable \in BOOLEAN, created \in BOOLEAN, tape \in Tape(3) :
        Invoke("download_media",
               [chat_id |-> chat_id, message_id |-> 1, file_path |-> file_path],
               [msg |-> msg, dir_writable |-> dir_writable, created |-> created],
               download_media(chat_id, 1, file_path, msg, dir_writable, created, tape))

SetProfilePhoto ==
    /\ tool = "none"
    /\ \E file_path \in Paths, fs \in FileKinds, tape \in Tape(2) :
        Invoke("set_profile_photo", [file_path |-> file_path], [fs |-> fs],
               set_profile_photo(file_path, fs, tape))

LeaveChat ==
    /\ tool = "none"
    /\ \E chat_id \in ChatIds, tape \in Tape(5) :
        Invoke("leave_chat", [chat_id |-> chat_id], [kind |-> KindOf(chat_id)],
               leave_chat(chat_id, KindOf(chat_id), tape))

UserIdLists == {[i \in 1..n |-> i] : n \in 0..MaxUsers}

CreateGroup ==
    /\ tool = "none"
    /\ \E user_ids \in UserIdLists, shape \in {"chats", "chat", "chat_id", "none"},
       tape \in Tape(MaxUsers + 2) :
       \E found \in (IF shape = "none" THEN BOOLEAN ELSE {FALSE}) :
        Invoke("create_group", [title |-> "g", user_ids |-> user_ids],
               [shape |-> shape, found |-> found],
               create_group("g", user_ids, shape, found, tape))

AddContact ==
    /\ tool = "none"
    /\ \E import_ok \in BOOLEAN, imported \in BOOLEAN, tape \in Tape(2) :
        Invoke("add_contact", [phone |-> "+1"], [import_ok |-> import_ok, imported |-> imported],
               add_contact("+1", import_ok, imported, tape))

Next ==
    \/ GetChats
    \/ GetMessages
    \/ ListMessages
    \/ SendFile
    \/ SendVoice
    \/ SendSticker
    \/ EditChatPhoto
    \/ DownloadMedia
    \/ SetProfilePhoto
    \/ LeaveChat
    \/ CreateGroup
    \/ AddContact
    \/ Respond
Spec == Init /\ [][Next]_vars

---------------------------------------------------------------------------
(* The tools with nested handlers and fallback chains, served by the same  *)
(* loop (specification SpecMore).                                          *)

GetChat ==
    /\ tool = "none"
    /\ \E chat_id \in ChatIds, tape \in Tape(3) :
        Invoke("get_chat", [chat_id |-> chat_id], [kind |-> KindOf(chat_id)],
               get_chat(chat_id, KindOf(chat_id), tape))

InviteToGroup ==
    /\ tool = "none"
    /\ \E user_ids \in UserIdLists, tape \in TapeWith(MaxUsers + 2, InviteExc) :
        Invoke("invite_to_group", [group_id |-> 2, user_ids |-> user_ids], <<>>,
               invite_to_group(2, user_ids, tape))

GetGifSearch ==
    /\ tool = "none"
    /\ \E found \in BOOLEAN, tape \in Tape(2) :
        Invoke("get_gif_search", [query |-> "q", limit |-> 10], [found |-> found],
               get_gif_search("q", 10, found, tape))

GetContactChats ==
    /\ tool = "none"
    /\ \E contact_id \in ChatIds, has_direct \in BOOLEAN, common \in 0..1, tape \in Tape(3) :
        Invoke("get_contact_chats", [contact_id |-> contact_id],
               [kind |-> KindOf(contact_id), has_direct |-> has_direct, common |-> common],
               get_contact_chats(contact_id, KindOf(contact_id), has_direct, common, tape))

\* an invite link in its two forms, and a bare hash
Links == {<<"h", "t", "t", "p", "s", ":", "/", "/", "t", ".", "m", "e", "/", "+", "a", "b">>,
          <<"t", ".", "m", "e", "/", "j", "o", "i", "n", "c", "h", "a", "t", "/", "a", "b">>,
          <<"+", "a", "b">>}

JoinChatByLink ==
    /\ tool = "none"
    /\ \E link \in Links, member \in BOOLEAN, titled \in BOOLEAN, tape \in TapeWith(2, JoinExc) :
        Invoke("join_chat_by_link", [link |-> link], [member |-> member, titled |-> titled],
               join_chat_by_link(link, member, titled, tape))

GetInviteLink ==
    /\ tool = "none"
    /\ \E chat_id \in ChatIds, full \in {"link", "none", "absent"}, tape \in Tape(4) :
        Invoke("get_invite_link", [chat_id |-> chat_id],
               [kind |-> KindOf(chat_id), full |-> full],
               get_invite_link(chat_id, KindOf(chat_id), full, tape))

ExportChatInvite ==
    /\ tool = "none"
    /\ \E chat_id \in ChatIds, tape \in Tape(3) :
        Invoke("export_chat_invite", [chat_id |-> chat_id], [kind |-> KindOf(chat_id)],
               export_chat_invite(chat_id, tape))

\* what a resolution answers: the entity, or that there is none
ResolveOutcomes == {NoExc, [cls |-> "ValueError", msg |-> msg_not_found]}

SetPrivacySettings ==
    /\ tool = "none"
    /\ \E key \in {"status", "phone", "birthday"},
          allow_users \in UserIdLists, disallow_users \in UserIdLists,
          outcome \in Outcomes \cup PrivacyExc :
       \E allow_outs \in [1..Len(allow_users) -> ResolveOutcomes],
          disallow_outs \in [1..Len(disallow_users) -> ResolveOutcomes] :
        Invoke("set_privacy_settings",
               [key |-> key, allow_users |-> allow_users, disallow_users |-> disallow_users],
               [allow_outs |-> allow_outs, disallow_outs |-> disallow_outs],
               set_privacy_settings(key, allow_users, disallow_users,
                                    allow_outs, disallow_outs, outcome))

NextMore ==
    \/ GetChat
    \/ InviteToGroup
    \/ GetGifSearch
    \/ GetContactChats
    \/ JoinChatByLink
    \/ GetInviteLink
    \/ ExportChatInvite
    \/ LeaveChat
    \/ AddContact
    \/ SetPrivacySettings
    \/ Respond
SpecMore == Init /\ [][NextMore]_vars

---------------------------------------------------------------------------
(* The process from its start (main.py 46-62 and 2440-2461; specification  *)
(* SpecMain): the module reads its settings, main() starts the client and  *)
(* then serves requests until the server loop ends.                        *)

msg_locked == <<"d", "a", "t", "a", "b", "a", "s", "e", " ", "i", "s", " ",
                "l", "o", "c", "k", "e", "d">>

\* what client.start() raises: the library's errors, or sqlite3's when the
\* session file is in use
StartExc == LibExc \cup {[cls |-> "OperationalError", msg |-> msg_locked]}

\* loaded: the module's settings were read (lines 46-62); started: client.start() returned
Loading == [pc |-> "load", loaded |-> FALSE, started |-> FALSE, status |-> None]
Starting == [pc |-> "start", loaded |-> TRUE, started |-> FALSE, status |-> None]
Exited(started, status) ==
    [pc |-> "exited", loaded |-> main.pc # "load", started |-> started, status |-> status]

InitMain ==
    /\ hashSeed \in 0..MaxSeed
    /\ run = 1
    /\ tool = "none"
    /\ args = <<>>
    /\ env = <<>>
    /\ calls = <<>>
    /\ ret = NoRet
    /\ logged = <<>>
    /\ noted = NoNote
    /\ main = Loading
    /\ files = {}
    /\ chat = NoChat
    /\ ctx = NoCtx

\* lines 46-62: int(os.getenv("TELEGRAM_API_ID")) raises TypeError when the
\* variable is not set, and the interpreter ends with status 1
LoadEnv ==
    /\ main.pc = "load"
    /\ \E api_id_set \in BOOLEAN :
          main' = IF api_id_set THEN Starting ELSE Exited(FALSE, 1)
    /\ UNCHANGED <<hashSeed, run, tool, args, env, calls, ret, logged, noted, files, chat, ctx>>

\* Mutation: the error of client.start() is swallowed and the loop is entered.
ClientStart_ServesAnyway ==
    /\ main.pc = "start"
    /\ \E outcome \in {NoExc} \cup StartExc :
          main' = [Serving EXCEPT !.started = (outcome = NoExc)]
    /\ UNCHANGED <<hashSeed, run, tool, args, env, calls, ret, logged, noted, files, chat, ctx>>

\* lines 2444-2447 and 2452-2459: await client.start(); sys.exit(1) when it raises
ClientStart ==
    /\ main.pc = "start"
    /\ \E outcome \in {NoExc} \cup StartExc :
          main' = IF outcome = NoExc THEN Serving ELSE Exited(FALSE, 1)
    /\ UNCHANGED <<hashSeed, run, tool, args, env, calls, ret, logged, noted, files, chat, ctx>>

\* lines 2451-2459: mcp.run_stdio_async() raises; the same handler calls sys.exit(1)
RunStdioRaises ==
    /\ main.pc = "serving"
    /\ tool = "none"
    /\ \E e \in LibExc : IsInstance(e, {"Exception"}) /\ main' = Exited(TRUE, 1)
    /\ UNCHANGED <<hashSeed, run, tool, args, env, calls, ret, logged, noted, files, chat, ctx>>

\* line 2451: mcp.run_stdio_async() returns when its input ends; main() returns
RunStdioReturns ==
    /\ main.pc = "serving"
    /\ tool = "none"
    /\ main' = Exited(TRUE, 0)
    /\ UNCHANGED <<hashSeed, run, tool, args, env, calls, ret, logged, noted, files, chat, ctx>>

NextMain ==
    \/ LoadEnv
    \/ ClientStart
    \/ RunStdioRaises
    \/ RunStdioReturns
    \/ GetChats
    \/ GetGifSearch
    \/ Respond
SpecMain == InitMain /\ [][NextMain]_vars

---------------------------------------------------------------------------
(* The helpers every tool shares: the error normalizer as each registered  *)
(* tool calls it, and the two formatters.                                  *)

\* What a registered tool does in its handler: it passes its own name and the
\* exception, and never a prefix (e.g. 252, 234, 1921).
ToolFails ==
    /\ tool = "none"
    /\ \E function_name \in ToolNames, error \in ErrExc :
        LET r == log_and_format_error(hashSeed, <<>>, function_name, error, None, <<>>)
        IN Invoke("log_and_format_error",
                  [function_name |-> function_name, error |-> error,
                   prefix |-> None, kwargs |-> <<>>],
                  [run |-> run],
                  [kind |-> "str", s |-> r.text, exc |-> NoExc,
                   calls |-> <<>>, logged |-> r.logged])

str_john == <<"J", "o", "h", "n">>
str_doe == <<"D", "o", "e">>
str_johndoe == <<"j", "o", "h", "n", "d", "o", "e">>
str_phone == <<"+", "1", "2", "3", "4", "5", "6", "7", "8", "9", "0">>
str_test_group == <<"T", "e", "s", "t", " ", "G", "r", "o", "u", "p">>
str_hello == <<"H", "e", "l", "l", "o", ",", " ", "w", "o", "r", "l", "d", "!">>

\* telethon's User carries all of these attributes, None where Telegram gave
\* nothing; Chat and Channel carry a title.
TelethonUsers ==
    { [cls |-> "User", auto |-> FALSE,
       attrs |-> [id |-> PyInt(123), first_name |-> f, last_name |-> l,
                  username |-> u, phone |-> p]] :
      f \in {PyNone, PyStr(str_john)}, l \in {PyNone, PyStr(str_doe)},
      u \in {PyNone, PyStr(str_johndoe)}, p \in {PyNone, PyStr(str_phone)} }

TelethonChats ==
    { [cls |-> c, auto |-> FALSE,
       attrs |-> [id |-> PyInt(456), title |-> PyStr(str_test_group)]] :
      c \in {"Chat", "Channel"} }

\* tests/test_basic.py 36-41: a MagicMock with five attributes set
TestUser ==
    [cls |-> "MagicMock", auto |-> TRUE,
     attrs |-> [id |-> PyInt(123), first_name |-> PyStr(str_john),
                last_name |-> PyStr(str_doe), username |-> PyStr(str_johndoe),
                phone |-> PyStr(str_phone)]]

\* tests/test_basic.py 52-54: a MagicMock(spec=Chat) with id and title set
TestGroup ==
    [cls |-> "Chat", auto |-> FALSE,
     attrs |-> [id |-> PyInt(456), title |-> PyStr(str_test_group)]]

Entities == TelethonUsers \cup TelethonChats \cup {TestUser, TestGroup}

FormatEntity ==
    /\ tool = "none"
    /\ \E entity \in Entities :
        Invoke("format_entity", [entity |-> entity], [run |-> run],
               [kind |-> "dict", s |-> format_entity(entity), exc |-> NoExc,
                calls |-> <<>>, logged |-> <<>>])

\* tests/test_basic.py 70, and an aware datetime with microseconds
Dates ==
    { [y |-> 2023, m |-> 1, d |-> 1, hh |-> 12, mm |-> 0, ss |-> 0, us |-> 0, utc |-> FALSE],
      [y |-> 2024, m |-> 12, d |-> 31, hh |-> 23, mm |-> 59, ss |-> 7, us |-> 1500, utc |-> TRUE] }

Peers == { [cls |-> c, id |-> 5] : c \in {"PeerUser", "PeerChat", "PeerChannel"} }

Medias == { [cls |-> c] : c \in {"MessageMediaPhoto", "MessageMediaDocument"} }

Messages ==
    [id : {789}, date : Dates, message : {PyNone, PyStr(<<>>), PyStr(str_hello)},
     from_id : {PyNone} \cup Peers, media : {PyNone} \cup Medias]

FormatMessage ==
    /\ tool = "none"
    /\ \E message \in Messages :
        Invoke("format_message", [message |-> message], [run |-> run],
               [kind |-> "dict", s |-> format_message(message), exc |-> NoExc,
                calls |-> <<>>, logged |-> <<>>])

NextFmt == ToolFails \/ FormatEntity \/ FormatMessage \/ Respond

SpecFmt == Init /\ [][NextFmt]_vars

---------------------------------------------------------------------------
(* The tools that pick their request by the class of the chat.             *)

Titles == {"a", "b"}

EditChatTitle ==
    /\ tool = "none"
    /\ \E chat_id \in ChatIds, title \in Titles, tape \in Tape(2) :
        Invoke("edit_chat_title", [chat_id |-> chat_id, title |-> title],
               [kind |-> KindOf(chat_id)],
               edit_chat_title(chat_id, title, KindOf(chat_id), tape))

DeleteChatPhoto ==
    /\ tool = "none"
    /\ \E chat_id \in ChatIds, tape \in Tape(2) :
        Invoke("delete_chat_photo", [chat_id |-> chat_id],
               [kind |-> KindOf(chat_id)],
               delete_chat_photo(chat_id, KindOf(chat_id), tape))

NextEdit == EditChatTitle \/ EditChatPhoto \/ DeleteChatPhoto \/ Respond

SpecEdit == Init /\ [][NextEdit]_vars

---------------------------------------------------------------------------
(* Invocations that meet on the host's files: download_media writes a file *)
(* and send_file reads one.  Here the directory holds nothing but what     *)
(* download_media has written since the process started.                   *)

\* what is at a path
FileAt(file_path) == IF file_path \in files THEN "readable" ELSE "missing"

\* line 1108: client.download_media(msg, file=file_path) writes the file; a
\* file that is already there is still there afterwards (line 1109)
DownloadMediaTo ==
    /\ tool = "none"
    /\ \E chat_id \in {1}, file_path \in Paths, msg \in {"None", "media"},
       dir_writable \in BOOLEAN, tape \in Tape(3) :
       \E created \in (IF file_path \in files THEN {TRUE} ELSE BOOLEAN) :
        LET r == download_media(chat_id, 1, file_path, msg, dir_writable, created, tape)
            written == /\ Len(r.calls) = 3 /\ r.calls[3].exc = NoExc /\ created
        IN /\ Finish("download_media",
                     [chat_id |-> chat_id, message_id |-> 1, file_path |-> file_path],
                     [msg |-> msg, dir_writable |-> dir_writable, created |-> created], r)
           /\ files' = IF written THEN files \cup {file_path} ELSE files
           /\ UNCHANGED <<chat, ctx>>

SendFileAt ==
    /\ tool = "none"
    /\ \E chat_id \in {1}, file_path \in Paths, tape \in Tape(2) :
        Invoke("send_file", [chat_id |-> chat_id, file_path |-> file_path],
               [fs |-> FileAt(file_path), tape |-> tape],
               send_file(chat_id, file_path, FileAt(file_path), tape))

NextFiles == DownloadMediaTo \/ SendFileAt \/ Respond

SpecFiles == Init /\ [][NextFiles]_vars

---------------------------------------------------------------------------
(* A caller that reads the dialog list page by page (test.py 111 asks for  *)
(* page 1): it asks for the page after the last one it got, with the same  *)
(* page size, and joins the lines.                                         *)

Paging == "lines" \in DOMAIN noted

GetChatsPage ==
    /\ tool = "none"
    /\ \E tape \in Tape(1) :
        \E page_size \in (IF Paging THEN {noted.page_size} ELSE PageSizes),
           n \in (IF Paging THEN {noted.total} ELSE 1..MaxDialogs) :
            LET page == IF Paging THEN noted.page + 1 ELSE 1
            IN /\ (page - 1) * page_size < n
               /\ Invoke("get_chats", [page |-> page, page_size |-> page_size],
                         [total |-> n], get_chats(page, page_size, Dialogs(n), tape))

\* the caller appends the lines of the page to those it has
Collect ==
    /\ tool = "get_chats"
    /\ ret.kind = "str" /\ ret.s.fmt = "Chat ID: {chat_id}, Title: {title}"
    /\ noted' = [page |-> args.page, page_size |-> args.page_size, total |-> env.total,
                 lines |-> (IF Paging THEN noted.lines ELSE <<>>) \o ret.s.vals]
    /\ tool' = "none"
    /\ args' = <<>>
    /\ env' = <<>>
    /\ calls' = <<>>
    /\ ret' = NoRet
    /\ logged' = <<>>
    /\ UNCHANGED <<hashSeed, run, main, files, chat, ctx>>

NextPages == GetChatsPage \/ Collect \/ Respond

SpecPages == Init /\ [][NextPages]_vars

---------------------------------------------------------------------------
(* Joining by invite: join_chat_by_link and import_chat_invite.            *)

\* the hash of the invite, bare and with the "+" of the link before it
Hashes == {<<"a", "b">>, <<"+", "a", "b">>}

ImportChatInvite ==
    /\ tool = "none"
    /\ \E hash \in Hashes, member \in BOOLEAN, titled \in BOOLEAN,
          tape \in TapeWith(2, JoinExc) :
        Invoke("import_chat_invite", [hash |-> hash], [member |-> member, titled |-> titled],
               import_chat_invite(hash, member, titled, tape))

NextJoin == JoinChatByLink \/ ImportChatInvite \/ Respond

SpecJoin == Init /\ [][NextJoin]_vars

---------------------------------------------------------------------------
(* Invocations that interleave: get_message_context is suspended at each   *)
(* of its four awaits, and the server loop dispatches send_message and     *)
(* delete_message for the same chat meanwhile.  The remote service answers *)
(* a fetch from the chat as it is when it answers.                         *)

ContextSizes == {1}

\* the library's answers to the first k calls: k - 1 results, then e
TapeTo(k, e) == [i \in 1..4 |-> IF i < k THEN NoExc ELSE e]

\* the suspended invocation has seen the chat in one more state
Seen(c) == IF ctx.pc = "idle" THEN ctx ELSE [ctx EXCEPT !.seen = @ \cup {c.msgs}]

\* the invocation ends: its result goes to the caller
CtxEnd(c, tape) ==
    /\ Finish("get_message_context",
              [chat_id |-> 1, message_id |-> c.message_id, context_size |-> c.context_size],
              [seen |-> c.seen, before |-> c.before, central |-> c.central, after |-> c.after],
              get_message_context(1, c.message_id, c.context_size,
                                  c.before, c.central, c.after, tape))
    /\ ctx' = NoCtx
    /\ UNCHANGED <<files, chat>>

\* the invocation goes on to its next await
CtxGoOn(c) ==
    /\ tool = "none"
    /\ ctx' = c
    /\ UNCHANGED <<hashSeed, run, tool, args, env, calls, ret, logged, noted, main, files, chat>>

\* line 713: the request is dispatched and get_entity is awaited
CtxBegin ==
    /\ main.pc = "serving"
    /\ ctx.pc = "idle"
    /\ \E message_id \in 1..MaxId, context_size \in ContextSizes :
        CtxGoOn([pc |-> "entity", message_id |-> message_id, context_size |-> context_size,
                 before |-> <<>>, central |-> NoMessage, after |-> <<>>, seen |-> {chat.msgs}])

\* line 713 answers; line 715 is awaited
CtxEntity ==
    /\ ctx.pc = "entity"
    /\ \E outcome \in ResolveOutcomes :
        IF outcome = NoExc THEN CtxGoOn([ctx EXCEPT !.pc = "before"])
        ELSE CtxEnd(ctx, TapeTo(1, outcome))

\* line 715 answers; line 716 is awaited
CtxBefore ==
    /\ ctx.pc = "before"
    /\ \E outcome \in ResolveOutcomes :
        IF outcome = NoExc
        THEN CtxGoOn([ctx EXCEPT !.pc = "central",
                                 !.before = messages_below(chat.msgs, ctx.message_id,
                                                           ctx.context_size)])
        ELSE CtxEnd(ctx, TapeTo(2, outcome))

\* line 716 answers; lines 722-724 are awaited
CtxCentral ==
    /\ ctx.pc = "central"
    /\ \E outcome \in ResolveOutcomes :
        IF outcome = NoExc
        THEN CtxGoOn([ctx EXCEPT !.pc = "after",
                                 !.central = message_by_id(chat.msgs, ctx.message_id)])
        ELSE CtxEnd(ctx, TapeTo(3, outcome))

\* lines 722-724 answer; the invocation runs to its end
CtxAfter ==
    /\ ctx.pc = "after"
    /\ \E outcome \in ResolveOutcomes :
        IF outcome = NoExc
        THEN CtxEnd([ctx EXCEPT !.after = messages_above(chat.msgs, ctx.message_id,
                                                         ctx.context_size)],
                    TapeTo(5, NoExc))
        ELSE CtxEnd(ctx, TapeTo(4, outcome))

\* send_message: the service gives the new message the next id
SendMessage ==
    /\ tool = "none"
    /\ chat.next <= MaxId
    /\ \E tape \in [1..2 -> ResolveOutcomes] :
        LET r == send_message(1, "m", tape)
            c == IF tape[1] = NoExc /\ tape[2] = NoExc
                 THEN [msgs |-> chat.msgs \cup {chat.next}, next |-> chat.next + 1]
                 ELSE chat
        IN /\ Finish("send_message", [chat_id |-> 1, message |-> "m"], [sent |-> c # chat], r)
           /\ chat' = c
           /\ ctx' = Seen(c)
           /\ UNCHANGED files

\* delete_message of a message the chat has: the service drops it
DeleteMessage ==
    /\ tool = "none"
    /\ \E message_id \in chat.msgs, tape \in [1..2 -> ResolveOutcomes] :
        LET r == delete_message(1, message_id, tape)
            c == IF tape[1] = NoExc /\ tape[2] = NoExc
                 THEN [chat EXCEPT !.msgs = @ \ {message_id}]
                 ELSE chat
        IN /\ Finish("delete_message", [chat_id |-> 1, message_id |-> message_id],
                     [deleted |-> c # chat], r)
           /\ chat' = c
           /\ ctx' = Seen(c)
           /\ UNCHANGED files

NextCtx ==
    \/ CtxBegin
    \/ CtxEntity
    \/ CtxBefore
    \/ CtxCentral
    \/ CtxAfter
    \/ SendMessage
    \/ DeleteMessage
    \/ Respond

SpecCtx == Init /\ [][NextCtx]_vars

---------------------------------------------------------------------------
(* Properties of the tool invocations (specification Spec).                *)

AllCallsOk == \A i \in 1..Len(calls) : calls[i].exc = NoExc
CallNames == {calls[i].name : i \in 1..Len(calls)}
IsCodedError(s) == s.fmt = CodedFmt
PathIsBad == ~(isfile(env.fs) /\ access_R_OK(env.fs))

\* C1: whatever the library answers to each call, an invocation of a tool ends
\* with a returned string; no exception leaves the tool, not even one raised
\* in a fallback attempt or inside an except branch.
C1_ToolsReturnStrings ==
    tool # "none" => (ret.kind = "str" /\ ret.exc = NoExc /\ ret.s # NoStr)

\* leave_chat of a basic group whose first and second attempts both fail
C1_Witness ==
    /\ tool = "leave_chat"
    /\ env.kind = "Chat"
    /\ Len(calls) = 5
    /\ calls[3].exc # NoExc
    /\ calls[5].exc # NoExc
    /\ ret.kind = "str"

\* C2: get_chats with (page - 1) * page_size greater than the number of
\* dialogs returns "Page out of range.", and a successful listing is never
\* empty.
C2_GetChatsOutOfRange ==
    (tool = "get_chats" /\ AllCallsOk) =>
        /\ (args.page - 1) * args.page_size > env.total => ret.s.fmt = "Page out of range."
        /\ ret.s.fmt # "Page out of range." => ret.s.vals # <<>>

\* page 3 of size 2 when there are 3 dialogs
C2_Witness ==
    /\ tool = "get_chats"
    /\ AllCallsOk
    /\ (args.page - 1) * args.page_size > env.total
    /\ args.page - 1 < env.total
    /\ ret.s.fmt = "Page out of range."

\* C3: get_chats and get_messages both answer a start offset past the end of
\* a non-empty collection with "Page out of range.", and answer page 1 of an
\* empty collection with something else.
C3_SentinelInBothTools ==
    (tool \in {"get_chats", "get_messages"} /\ AllCallsOk) =>
        /\ (env.total > 0 /\ (args.page - 1) * args.page_size >= env.total)
               => ret.s.fmt = "Page out of range."
        /\ (env.total = 0 /\ args.page = 1) => ret.s.fmt # "Page out of range."

\* the calendar day (ordinal) an instant falls on
DayOf(instant) == (instant \div TicksPerDay) + 1

\* C4: with valid dates, list_messages returns exactly the fetched messages
\* whose day is not before from_date's day and not after to_date's day.
C4_DateRangeInclusive ==
    (/\ tool = "list_messages"
     /\ Len(calls) = 2
     /\ AllCallsOk) =>
        LET fetched == SubSeq(env.history, 1,
                              IF args.limit < Len(env.history) THEN args.limit
                              ELSE Len(env.history))
            InRange(msg) ==
                /\ args.from_date = NoDate \/ Ordinal(args.from_date) <= DayOf(msg.date)
                /\ args.to_date = NoDate \/ DayOf(msg.date) <= Ordinal(args.to_date)
            kept == SelectSeq(fetched, InRange)
        IN IF kept = <<>>
           THEN ret.s.fmt = "No messages found matching the criteria."
           ELSE ret.s.vals = kept

\* from_date = to_date = 2024-02-29; a message at the last tick of that day is
\* returned, one of the day after is not
C4_Witness ==
    /\ tool = "list_messages"
    /\ AllCallsOk
    /\ args.from_date = [y |-> 2024, m |-> 2, d |-> 29]
    /\ args.to_date = args.from_date
    /\ args.limit = 2
    /\ Len(env.history) = 2
    /\ DayOf(env.history[1].date) = Ordinal(args.to_date) + 1
    /\ env.history[2].date = Ordinal(args.to_date) * TicksPerDay - 1
    /\ ret.s.vals = <<env.history[2]>>

\* C5: send_file, send_voice, send_sticker and edit_chat_photo, given a path
\* that is not a readable regular file, return a message that names the path
\* and issue no call to the client library.
C5_BadPathNoCall ==
    (/\ tool \in {"send_file", "send_voice", "send_sticker", "edit_chat_photo"}
     /\ PathIsBad) =>
        /\ calls = <<>>
        /\ ret.kind = "str"
        /\ ~IsCodedError(ret.s)
        /\ ret.s.vals = args.file_path

\* edit_chat_photo given a directory
C5_Witness ==
    /\ tool = "edit_chat_photo"
    /\ env.fs = "directory"
    /\ calls = <<>>
    /\ ret.s.fmt = "Photo file not found: {file_path}"

\* C6: every file operation makes its local check before its first remote
\* call: when the check fails, no call has been issued and the descriptive
\* message is returned.
C6_LocalCheckFirst ==
    /\ (/\ tool \in {"send_file", "send_voice", "send_sticker", "edit_chat_photo",
                     "set_profile_photo"}
        /\ PathIsBad) => (calls = <<>> /\ ~IsCodedError(ret.s))
    /\ (tool = "download_media" /\ ~env.dir_writable)
           => (calls = <<>> /\ ret.s.fmt = "Directory not writable: {dir_path}")

\* C7: leave_chat of a basic group never issues channels.LeaveChannelRequest
\* and issues messages.DeleteChatUserRequest once it knows who it is;
\* leave_chat of a channel issues channels.LeaveChannelRequest and never
\* messages.DeleteChatUserRequest.
C7_LeaveDispatch ==
    (tool = "leave_chat" /\ calls # <<>> /\ calls[1].exc = NoExc) =>
        /\ env.kind = "Chat" =>
              /\ "channels.LeaveChannelRequest" \notin CallNames
              /\ (\E i \in 1..Len(calls) : calls[i].name = "get_me" /\ calls[i].exc = NoExc)
                     => "messages.DeleteChatUserRequest" \in CallNames
        /\ env.kind = "Channel" =>
              /\ "messages.DeleteChatUserRequest" \notin CallNames
              /\ Len(calls) = 2
              /\ calls[2].name = "channels.LeaveChannelRequest"

\* a basic group left at the second attempt
C7_Witness ==
    /\ tool = "leave_chat"
    /\ env.kind = "Chat"
    /\ Len(calls) = 5
    /\ calls[5].name = "messages.DeleteChatUserRequest"
    /\ calls[5].exc = NoExc
    /\ ret.s.fmt = "Left basic group {chat_name} (ID: {chat_id})."

\* C8: leave_chat of a user returns a message that says the chat cannot be
\* left (so not the coded message, which says nothing of the kind) and issues
\* no request beyond resolving the id.
C8_UserCannotLeave ==
    (tool = "leave_chat" /\ calls # <<>> /\ calls[1].exc = NoExc /\ env.kind = "User") =>
        /\ ~IsCodedError(ret.s)
        /\ Len(calls) = 1

---------------------------------------------------------------------------
(* Properties of the error normalizer (specification SpecErr).             *)

SameName ==
    /\ tool = "log_and_format_error"
    /\ noted # NoNote
    /\ noted.function_name = args.function_name
    /\ noted.prefix = None
    /\ args.prefix = None

\* C9: within a run, two calls of log_and_format_error with the same function
\* name and no explicit prefix return the same prefix and the same number,
\* whatever the exceptions, the context and the calls in between.
C9_SameNameSameCode ==
    (SameName /\ noted.run = env.run) => ret.s = noted.text

\* two calls in one run that differ in exception and in context
C9_Witness ==
    /\ SameName
    /\ noted.run = env.run
    /\ noted.error # args.error
    /\ noted.kwargs # args.kwargs
    /\ ret.s = noted.text

\* C10: two calls of log_and_format_error with the same function name return
\* the same code in whatever runs of the process they are made.
C10_CodeStableAcrossRuns ==
    SameName => ret.s.vals.num = noted.text.vals.num

SameNameAndPrefix ==
    /\ tool = "log_and_format_error"
    /\ noted # NoNote
    /\ noted.function_name = args.function_name
    /\ noted.prefix = args.prefix
    /\ noted.run = env.run

\* C11: the string log_and_format_error returns is fixed by the function name
\* and the prefix argument: two calls of one run that agree on both return the
\* same string whatever the exception and the context parameters, and those
\* two are found in the log record of the call.
C11_TextIgnoresErrorAndContext ==
    /\ SameNameAndPrefix => ret.s = noted.text
    /\ tool = "log_and_format_error" =>
          /\ Len(logged) = 1
          /\ logged[1].msg.error = args.error
          /\ logged[1].msg.context = args.kwargs

\* two calls with an explicit prefix that differ in exception and in context
C11_Witness ==
    /\ SameNameAndPrefix
    /\ args.prefix = "AUTH"
    /\ noted.error # args.error
    /\ noted.kwargs # args.kwargs
    /\ ret.s = noted.text
    /\ logged[1].msg.error = args.error

---------------------------------------------------------------------------
(* Properties of the tools of specification SpecMore.                      *)

FailedCalls == {i \in 1..Len(calls) : calls[i].exc # NoExc}

\* C12: no string a tool returns carries the text of an exception the client
\* library raised in the invocation.
C12_NoExceptionTextReturned ==
    tool # "none" =>
        ~(/\ "shown" \in DOMAIN ret.s
          /\ \E i \in FailedCalls : calls[i].exc.msg = ret.s.shown)

\* C13: when a client-library call has raised during an invocation, the log
\* (which keeps the records of level ERROR and above) holds at least one
\* record of the invocation by the time the tool returns.
C13_EveryErrorLogged ==
    (tool # "none" /\ FailedCalls # {}) => Len(logged) >= 1

\* the tools that try another call shape when the first fails
FallbackTools == {"add_contact", "leave_chat", "get_invite_link", "export_chat_invite",
                  "get_gif_search"}

\* the calls of an invocation that are attempts at the operation itself
Attempts == {i \in 1..Len(calls) : calls[i].name \notin {"get_entity", "get_me"}}

\* C14: in a tool with a fallback chain, a call is made after a failed one
\* only if the failed call raised AttributeError or TypeError; after any other
\* exception no further call is made.
C14_FallbackOnlyOnVersionErrors ==
    tool \in FallbackTools =>
        \A i \in FailedCalls :
            i < Len(calls) => IsInstance(calls[i].exc, {"AttributeError", "TypeError"})

\* C15: a tool with a fallback chain makes at most two attempts, the primary
\* call shape and one alternate, and when both fail it returns the coded
\* message of log_and_format_error.
C15_OneAlternateThenCoded ==
    tool \in FallbackTools =>
        /\ Cardinality(Attempts) <= 2
        /\ (Cardinality(Attempts) = 2 /\ Attempts \subseteq FailedCalls) => IsCodedError(ret.s)

\* C16: in every tool, a get_entity call that raises is the last call of the
\* invocation, and the invocation does not report success.
C16_FailedResolutionEndsInvocation ==
    tool # "none" =>
        \A i \in FailedCalls :
            calls[i].name = "get_entity" =>
                /\ i = Len(calls)
                /\ ret.s.fmt # "Privacy settings for {key} updated successfully."

---------------------------------------------------------------------------
(* Properties of the process (specification SpecMain).                     *)

\* C17: the process ends with a status other than 0 exactly when the client
\* did not start; once client.start() has returned, nothing that fails makes
\* the process end with a status other than 0.
C17_ExitOnlyOnStartupFailure ==
    main.pc = "exited" => (main.status # 0 <=> ~main.started)

\* C30: the server loop is entered only when client.start() has returned, so
\* a tool is invoked only while the client is started; and when
\* client.start() raises, the loop is never entered and the process ends
\* with status 1.
C30_ServeOnlyAfterStart ==
    [][/\ (main'.pc = "serving" /\ main.pc # "serving") => (main.pc = "start" /\ main'.started)
       /\ (tool' # tool /\ tool' # "none") => (main.pc = "serving" /\ main.started)
       /\ (main.pc = "start" /\ main'.pc # "serving") =>
             (main'.pc = "exited" /\ ~main'.started /\ main'.status = 1)
       /\ main.pc = "exited" => main' = main]_vars

\* client.start() raised: the process has ended with status 1 and no tool was invoked
C30_Witness ==
    /\ main.pc = "exited"
    /\ main.loaded /\ ~main.started
    /\ main.status = 1
    /\ tool = "none"

---------------------------------------------------------------------------
(* Properties of the shared helpers (specification SpecFmt).               *)

TaxonomyPrefixes ==
    {"CHAT", "MSG", "CONTACT", "GROUP", "MEDIA", "PROFILE", "AUTH", "ADMIN", "GEN"}

MessageTools == {fn_send_message, fn_get_messages, fn_edit_message}

\* C18: each prefix of the taxonomy (CHAT, MSG, CONTACT, GROUP, MEDIA, PROFILE,
\* AUTH, ADMIN, GEN) is the prefix of the code of at least one registered
\* tool, and a failure of send_message, get_messages or edit_message is
\* reported with a code whose prefix is MSG.
C18_EveryPrefixProduced ==
    /\ \A p \in TaxonomyPrefixes : \E name \in ToolNames : DerivePrefix(name) = p
    /\ (tool = "log_and_format_error" /\ args.prefix = None
        /\ args.function_name \in MessageTools)
       => ret.s.vals.prefix = "MSG"

\* the attributes the test sets on its user object
UserShaped(entity) ==
    /\ {"id", "first_name", "last_name", "username", "phone"} \subseteq DOMAIN entity.attrs
    /\ "title" \notin DOMAIN entity.attrs

\* first and last name joined by one space, without one when either is missing
FullName(entity) ==
    LET f == entity.attrs.first_name
        l == entity.attrs.last_name
    IN IF Truthy(f) /\ Truthy(l) THEN f.s \o <<" ">> \o l.s
       ELSE IF Truthy(f) THEN f.s
       ELSE IF Truthy(l) THEN l.s
       ELSE <<>>

\* C19: format_entity of an object that carries id, first_name, last_name,
\* username and phone, built as the test builds it, has type "user", the
\* names joined by one space as its name, and the username and the phone
\* that were set; of an object on which a title was set, it has the title
\* as its name and type "group" for a Chat and "channel" otherwise.
C19_EntityShapes ==
    tool = "format_entity" =>
        LET entity == args.entity
        IN /\ UserShaped(entity) =>
                /\ ret.s["type"] = PyStr(str_user)
                /\ ret.s["name"] = PyStr(FullName(entity))
                /\ Truthy(entity.attrs.username) => ret.s["username"] = entity.attrs.username
                /\ Truthy(entity.attrs.phone) => ret.s["phone"] = entity.attrs.phone
           /\ "title" \in DOMAIN entity.attrs =>
                /\ ret.s["name"] = entity.attrs.title
                /\ ret.s["type"] = PyStr(IF entity.cls = "Chat" THEN str_group
                                         ELSE str_channel)

\* the text is YYYY-MM-DDTHH:MM:SS, possibly followed by a fraction and an offset
IsIsoDate(s) ==
    /\ Len(s) >= 19
    /\ s[5] = "-" /\ s[8] = "-" /\ s[11] = "T" /\ s[14] = ":" /\ s[17] = ":"
    /\ \A i \in (1..19) \ {5, 8, 11, 14, 17} : \E k \in 1..10 : Digits[k] = s[i]

\* C20: format_message always returns the id, the date in ISO form and the
\* text (the empty string when the message has none); has_media and
\* media_type are there exactly when the message has media, and from_id
\* exactly when it has a sender peer.
C20_MessageShape ==
    tool = "format_message" =>
        LET message == args.message
        IN /\ {"id", "date", "text"} \subseteq DOMAIN ret.s
           /\ ret.s["id"] = message.id
           /\ IsIsoDate(ret.s["date"])
           /\ ret.s["text"] = (IF message.message = PyNone THEN <<>> ELSE message.message.s)
           /\ "has_media" \in DOMAIN ret.s <=> message.media # PyNone
           /\ "media_type" \in DOMAIN ret.s <=> message.media # PyNone
           /\ "from_id" \in DOMAIN ret.s <=> message.from_id # PyNone

\* a message without text, media or sender, answered with the three fixed keys
C20_Witness ==
    /\ tool = "format_message"
    /\ args.message.message = PyNone
    /\ args.message.media = PyNone
    /\ args.message.from_id = PyNone
    /\ ret.s["text"] = <<>>
    /\ DOMAIN ret.s = {"id", "date", "text"}

---------------------------------------------------------------------------
(* Properties of the tools that pick their request by the class of the     *)
(* chat (specification SpecEdit).                                          *)

EditTools == {"edit_chat_title", "edit_chat_photo", "delete_chat_photo"}
ChannelRequests == {"channels.EditTitleRequest", "channels.EditPhotoRequest"}
ChatRequests == {"messages.EditChatTitleRequest", "messages.EditChatPhotoRequest"}

\* C21: edit_chat_title, edit_chat_photo and delete_chat_photo issue only the
\* channels.* request for a Channel and only the messages.* request for a
\* basic group; for an entity of any other class they return a "Cannot ..."
\* message and have issued neither an edit request nor an upload.
C21_RequestByEntityClass ==
    tool \in EditTools =>
        /\ env.kind = "Channel" => CallNames \cap ChatRequests = {}
        /\ env.kind = "Chat" => CallNames \cap ChannelRequests = {}
        /\ (env.kind \notin {"Channel", "Chat"} /\ AllCallsOk /\ "get_entity" \in CallNames)
           => /\ ret.s.fmt \in {"Cannot edit title for this entity type ({type(entity)}).",
                                "Cannot edit photo for this entity type ({type(entity)}).",
                                "Cannot delete photo for this entity type ({type(entity)})."}
              /\ CallNames \subseteq {"get_entity"}

---------------------------------------------------------------------------
(* Further properties of the tool invocations (specification Spec).        *)

\* the messages of the chat, newest first, whose date lies in the range asked for
InRange ==
    SelectSeq(env.history,
              LAMBDA msg : KeepMessage(msg, args.from_date, args.to_date))

\* C23: list_messages with a date range returns the most recent `limit`
\* messages of the chat whose date lies in the range, min(limit, k) of them
\* where k is the number of such messages, and answers "No messages found
\* matching the criteria." only when k = 0.
C23_LimitAfterFilter ==
    (/\ tool = "list_messages"
     /\ Len(calls) = 2 /\ AllCallsOk
     /\ (args.from_date # NoDate \/ args.to_date # NoDate)
     /\ ret.s.fmt \notin {"Invalid from_date format. Use YYYY-MM-DD.",
                          "Invalid to_date format. Use YYYY-MM-DD."})
    => IF Len(InRange) = 0
       THEN ret.s.fmt = "No messages found matching the criteria."
       ELSE /\ ret.s.fmt # "No messages found matching the criteria."
            /\ ret.s.vals = PySlice(InRange, 0, args.limit)

---------------------------------------------------------------------------
(* Properties of the invocations that meet on the host's files             *)
(* (specification SpecFiles).                                              *)

---------------------------------------------------------------------------
(* Properties of the paged reading of the dialog list (specification       *)
(* SpecPages).                                                             *)

\* C24: for a dialog list of n >= 1 items and a page size s > 0, the lines of
\* pages 1..p of get_chats joined are the first min(p * s, n) dialogs in
\* dialog order, so pages 1..ceil(n/s) give each dialog once, none repeated
\* or skipped; and one invocation issues one get_dialogs call and returns a
\* contiguous slice of that list.
C24_PagesPartitionDialogs ==
    /\ Paging =>
          LET upto == IF noted.page * noted.page_size < noted.total
                      THEN noted.page * noted.page_size ELSE noted.total
          IN noted.lines = SubSeq(Dialogs(noted.total), 1, upto)
    /\ (tool = "get_chats" /\ AllCallsOk) =>
          /\ Len(calls) = 1 /\ calls[1].name = "get_dialogs"
          /\ \E a \in 1..env.total, b \in 1..env.total :
                ret.s.vals = SubSeq(Dialogs(env.total), a, b)

\* three dialogs read in two pages of two: the last page is short
C24_Witness ==
    /\ Paging
    /\ noted.total = 3 /\ noted.page_size = 2 /\ noted.page = 2
    /\ noted.lines = Dialogs(3)

---------------------------------------------------------------------------
(* Further properties of the tool invocations (specification Spec),        *)
(* continued.                                                              *)

\* the get_entity calls that come first in the invocation all returned
ResolvedAll(n) ==
    /\ Len(calls) >= n
    /\ \A i \in 1..n : calls[i].name = "get_entity" /\ calls[i].exc = NoExc

\* C25: create_group issues messages.CreateChatRequest only after every
\* identifier of a non-empty user_ids has been resolved; when user_ids is
\* empty or a resolution fails it returns an "Error: ..." message and never
\* issues the request.
C25_CreateAfterAllResolved ==
    tool = "create_group" =>
        /\ "messages.CreateChatRequest" \in CallNames =>
              /\ args.user_ids # <<>>
              /\ ResolvedAll(Len(args.user_ids))
              /\ calls[Len(args.user_ids) + 1].name = "messages.CreateChatRequest"
        /\ args.user_ids = <<>> =>
              /\ ret.s.fmt = "Error: No valid users provided"
              /\ calls = <<>>
        /\ (args.user_ids # <<>> /\ ~ResolvedAll(Len(args.user_ids))) =>
              /\ ret.s.fmt = "Error: Could not find user with ID {user_id}"
              /\ "messages.CreateChatRequest" \notin CallNames

\* the second of two identifiers does not resolve
C25_Witness ==
    /\ tool = "create_group"
    /\ Len(args.user_ids) = 2
    /\ Len(calls) = 2
    /\ calls[1].exc = NoExc /\ calls[2].exc # NoExc
    /\ ret.s.fmt = "Error: Could not find user with ID {user_id}"
    /\ ret.s.vals = args.user_ids[2]

---------------------------------------------------------------------------
(* Further properties of the tools with nested handlers (specification     *)
(* SpecMore).                                                              *)

\* the account.SetPrivacyRequest calls of the invocation
PrivacyRequests == {i \in 1..Len(calls) : calls[i].name = "account.SetPrivacyRequest"}

RuleNames(i) ==
    {calls[i].arg.rules[j].rule : j \in 1..Len(calls[i].arg.rules)}

\* C26: set_privacy_settings never sends account.SetPrivacyRequest with an
\* empty list of rules; with an unsupported key it makes no remote call; it
\* sends an allow-all rule only when allow_users is None or empty; and when
\* allow_users is not empty the request carries an allow-users rule, also
\* when some or all of the identifiers do not resolve.
C26_PrivacyRulesNeverWiden ==
    tool = "set_privacy_settings" =>
        /\ args.key \notin PrivacyKeys => calls = <<>>
        /\ \A i \in PrivacyRequests :
              /\ calls[i].arg.rules # <<>>
              /\ "InputPrivacyValueAllowAll" \in RuleNames(i) => args.allow_users = <<>>
              /\ args.allow_users # <<>> => "InputPrivacyValueAllowUsers" \in RuleNames(i)

---------------------------------------------------------------------------
(* Properties of joining by invite (specification SpecJoin).               *)

the_hash == <<"a", "b">>
plus_link == <<"h", "t", "t", "p", "s", ":", "/", "/", "t", ".", "m", "e", "/", "+", "a", "b">>
plus_hash == <<"+", "a", "b">>

\* C29: join_chat_by_link and import_chat_invite issue CheckChatInviteRequest
\* first; when it answers with the chat they return "already a member" and
\* never issue ImportChatInviteRequest; when it raises or answers without a
\* chat they issue ImportChatInviteRequest once, with the same hash; and for
\* the link "https://t.me/+H" join_chat_by_link uses the hash H that
\* import_chat_invite uses for "+H".
C29_CheckThenImportOnce ==
    tool \in {"join_chat_by_link", "import_chat_invite"} =>
        /\ Len(calls) >= 1
        /\ calls[1].name = "messages.CheckChatInviteRequest"
        /\ (calls[1].exc = NoExc /\ env.member) =>
              /\ Len(calls) = 1
              /\ ret.s.fmt = "You are already a member of this chat: {chat_title}"
        /\ ~(calls[1].exc = NoExc /\ env.member) =>
              /\ Len(calls) = 2
              /\ calls[2].name = "messages.ImportChatInviteRequest"
              /\ calls[2].arg = calls[1].arg
        /\ (tool = "join_chat_by_link" /\ args.link = plus_link) => calls[1].arg = the_hash
        /\ (tool = "import_chat_invite" /\ args.hash = plus_hash) => calls[1].arg = the_hash

\* the check of the link "https://t.me/+ab" raises and the import joins the chat
C29_Witness ==
    /\ tool = "join_chat_by_link"
    /\ args.link = plus_link
    /\ Len(calls) = 2
    /\ calls[1].exc # NoExc /\ calls[2].exc = NoExc
    /\ calls[2].arg = the_hash
    /\ ret.s.fmt = "Successfully joined chat: {chat_title}"

---------------------------------------------------------------------------
(* Properties of get_message_context among interleaved invocations        *)
(* (specification SpecCtx).                                                *)

ContextFmt == "Context for message {message_id} in chat {chat_id}:"
NotFoundFmt == "Message with ID {message_id} not found in chat {chat_id}."
ContextFetched == tool = "get_message_context" /\ Len(calls) = 4 /\ AllCallsOk

\* the ids of the returned lines, in the order of the lines
LineIds == [i \in 1..Len(ret.s.vals) |-> ret.s.vals[i].id]

ContextIn(S, m, n) ==
    messages_below(S, m, n) \o (IF m \in S THEN <<m>> ELSE <<>>) \o messages_above(S, m, n)

\* C28: the messages a successful get_message_context returns are the context
\* of the central message in one state of the chat that existed while the
\* invocation ran, whatever send_message and delete_message invocations ran
\* in between its fetches.
C28_ContextOfOneChatState ==
    (ContextFetched /\ ret.s.fmt = ContextFmt) =>
        \E S \in env.seen :
            {LineIds[i] : i \in 1..Len(LineIds)}
                = {ContextIn(S, args.message_id, args.context_size)[i] :
                      i \in 1..Len(ContextIn(S, args.message_id, args.context_size))}

====
